---- MODULE Spec2Model ----
(***************************************************************************)
(* Corrective retrieval loop of the CRAG travel planner.                   *)
(*                                                                         *)
(* One turn of the search agent built by create_search_agent: the agent    *)
(* loop runs the before_model hooks of the three middlewares in the order  *)
(* they are appended to the middleware list (DocumentGradingMiddleware,    *)
(* QueryRefinerMiddleware, FallbackMiddleware), each hook's returned dict  *)
(* being merged into the state before the next hook runs; then the model   *)
(* is called and either emits a search_pois tool call (executed through    *)
(* DocumentGradingMiddleware.wrap_tool_call, after which the loop returns  *)
(* to the hooks) or finishes the turn.                                     *)
(*                                                                         *)
(* The grader, the rewriter, the fallback LLM, the agent LLM and the       *)
(* search backend are external: their answers are chosen with \E.          *)
(***************************************************************************)
EXTENDS Integers, Sequences, FiniteSets, TLC

\* ------------------------------------------------------------------ bounds
\* retrieval attempts explored in one turn
MaxAttempts == 3

\* ------------------------------------------------------- program constants
\* create_search_agent(max_retry=2), handed to refiner and fallback alike
max_retry == 2

\* ---------------------------------------------------------- value domains
\* Optional values: None is the empty tuple, a present value x is <<x>>
NoneV == <<>>
Some(x) == <<x>>

\* state.get("refined_query") / absent string fields
NoQuery == "<none>"

\* query strings the agent LLM and the rewriter can produce
Queries == {"q1", "q2"}

\* search_mode argument of search_pois
SearchModes == {"balanced", "keyword"}

\* result lists hybrid_search can hand back (lists of POI ids)
ResultLists == {<<>>, <<"p1">>, <<"p1", "p2">>}

\* what self.grader.invoke does: raise, return None, return an object
\* without binary_score, or return a GradeDocuments
GraderOutputs ==
    {[kind |-> k, binary_score |-> "no", must_visit_covered |-> TRUE] :
        k \in {"raise", "null", "malformed"}}
    \cup [kind : {"ok"}, binary_score : {"yes", "Yes", "no"},
          must_visit_covered : BOOLEAN]

\* no grader answer is waiting to be applied
NoGrader ==
    [kind |-> "not_called", binary_score |-> "no", must_visit_covered |-> TRUE]

\* what self._refiner_chain.invoke does: raise / return nothing usable
\* ("fail"), or return a RefinedQuery whose refined_query is any string,
\* the empty string included
RewriterOutputs == {"fail", ""} \cup Queries

\* state.get("user_features"): absent, a UserFeatures model, or a plain dict
UserFeatureKinds == {"absent", "model", "dict"}

VARIABLES
    pc,                     \* position in the agent loop
    \* ---- CRAGState
    last_rag_query,
    search_results,
    result_quality,
    error_type,
    refined_query,
    retry_count,
    tried_queries,
    fallback_triggered,
    final_response,
    user_features,          \* [kind, must_visit]
    \* ---- DocumentGradingMiddleware instance
    pending_grading,
    current_must_visit,
    \* ---- tools/search.py module state
    last_search_results,    \* the contextvar as the hooks see it
    module_search_results,
    ctx_propagates,         \* whether a contextvar write made inside the tool
                            \* node is visible to the hooks (fixed per run)
    \* ---- agent loop
    tool_call,              \* the pending search_pois call
    \* ---- observation of the run
    attempts,               \* search_pois executions in this turn
    last_retrieval,         \* result list of the latest search_pois execution
    cycle,                  \* what the current decision cycle did
    rewriter_out,           \* rewriter answer in the current cycle
    grader_out,             \* grader answer to the search_pois call waiting
                            \* to be applied
    fallback_calls,         \* invocations of _generate_with_fallback
    fallback_input,         \* candidates given to the fallback generator
    terminal,               \* a finished cycle saw quality good or fallback
    ever_found,             \* some search_pois execution returned candidates
    fallback_llm,           \* what the fallback LLM call of the turn did
    \* ---- one call of db/search.py hybrid_search
    hs_pc,                  \* "idle", "called", "returned" or "raised"
    store,                  \* the backend's ranking of its documents
    destination,            \* user_features.destination, as a token string
    top_k,
    use_rerank,
    reranker,               \* what the reranking service did in this call
    candidate_k,            \* k handed to advanced_hybrid_search
    backend_calls,          \* advanced_hybrid_search invocations
    pool,                   \* what advanced_hybrid_search returned
    candidates,             \* the pool after the destination filter
    poi_results,            \* the returned POIResult list
    \* ---- turns running side by side on the compiled graph
    turns,                  \* per turn: position, CRAGState, contextvar
    pending_owner,          \* turn whose wrap_tool_call wrote _pending_grading
    module_owner,           \* turn that last wrote _module_search_results
    \* ---- one TFIDFEncoder object
    encoder,                \* max_vocab_size, vocab, idf, doc_count, _fitted
    corpus,                 \* the documents of the latest fit call
    fits,                   \* fit calls made on the encoder
    last_encode,            \* the latest encode call since the latest fit
    probe,                  \* an earlier encode call since the latest fit
    \* ---- one call of a lookup function of db/
    lk_call,                \* the function called
    lk_arg,                 \* its argument
    lk_result,              \* what it returned
    \* ---- one chat session
    node,                   \* the graph node about to run, "end", or "idle"
    session,                \* the saved session state
    session_turns,          \* requests answered so far
    has_user_message,       \* state["messages"] holds a HumanMessage
    optional_asked,
    feature_complete,
    missing_features,
    asked                   \* what ask_user asked in this request

state_vars == <<last_rag_query, search_results, result_quality, error_type,
                refined_query, retry_count, tried_queries, fallback_triggered,
                final_response, user_features>>

vars == <<pc, last_rag_query, search_results, result_quality, error_type,
          refined_query, retry_count, tried_queries, fallback_triggered,
          final_response, user_features, pending_grading, current_must_visit,
          last_search_results, module_search_results, ctx_propagates,
          tool_call, attempts, last_retrieval, cycle, rewriter_out,
          grader_out,
          fallback_calls, fallback_input, terminal, ever_found,
          fallback_llm, hs_pc, store, destination, top_k, use_rerank,
          reranker, candidate_k, backend_calls, pool, candidates,
          poi_results, turns, pending_owner, module_owner, encoder, corpus,
          fits, last_encode, probe, lk_call, lk_arg, lk_result, node,
          session, session_turns, has_user_message, optional_asked,
          feature_complete, missing_features, asked>>

\* the variables of one hybrid_search call
search_vars == <<hs_pc, store, destination, top_k, use_rerank, reranker,
                 candidate_k, backend_calls, pool, candidates, poi_results>>

\* the variables of the side-by-side turns
conc_vars == <<turns, pending_owner, module_owner>>

\* the variables of the encoder object
enc_vars == <<encoder, corpus, fits, last_encode, probe>>

\* the variables of a lookup call
lookup_vars == <<lk_call, lk_arg, lk_result>>

\* the variables of a chat session
session_vars == <<node, session, session_turns, has_user_message,
                  optional_asked, feature_complete, missing_features, asked>>

\* what the retrieval loop and hybrid_search leave alone
aux_vars == <<enc_vars, lookup_vars, session_vars>>

\* what a single turn of the agent loop leaves alone
other_vars == <<search_vars, conc_vars, aux_vars>>

\* process-wide state every turn sees: the grading middleware instance of
\* the compiled graph, the module global of tools/search.py, the runtime's
\* context propagation
shared_vars == <<pending_grading, current_must_visit, module_search_results,
                 ctx_propagates>>

\* what belongs to the one turn followed by the agent loop
private_vars == <<pc, state_vars, last_search_results, tool_call, attempts,
                  last_retrieval, cycle, rewriter_out, grader_out,
                  fallback_calls,
                  fallback_input, terminal, ever_found, fallback_llm>>

NoCycle == [grade |-> "none", refined |-> FALSE, fellback |-> FALSE]

\* ----------------------------------------------------------- tools/search
\* get_last_search_results_raw: contextvar first, module-level otherwise
get_last_search_results_raw(ctx, mod) ==
    IF ctx # NoneV THEN ctx ELSE mod

\* get_last_search_results: same, with [] instead of None
get_last_search_results(ctx, mod) ==
    IF ctx # NoneV THEN ctx[1]
    ELSE IF mod # NoneV THEN mod[1] ELSE <<>>

\* ------------------------------------------------------------------- Init
\* no hybrid_search call is being followed
SearchIdle ==
    /\ hs_pc = "idle"
    /\ store = <<>>
    /\ destination = <<>>
    /\ top_k = 1
    /\ use_rerank = FALSE
    /\ reranker = [kind |-> "not_called", items |-> <<>>]
    /\ candidate_k = 0
    /\ backend_calls = 0
    /\ pool = <<>>
    /\ candidates = <<>>
    /\ poi_results = <<>>

\* no side-by-side turns are being followed
ConcIdle ==
    /\ turns = <<>>
    /\ pending_owner = "none"
    /\ module_owner = "none"

\* no encoder object is being followed
EncoderIdle ==
    /\ encoder = <<>>
    /\ corpus = <<>>
    /\ fits = 0
    /\ last_encode = <<>>
    /\ probe = <<>>

\* no lookup call is being followed
LookupIdle ==
    /\ lk_call = "none"
    /\ lk_arg = <<>>
    /\ lk_result = <<>>

\* no chat session is being followed
SessionIdle ==
    /\ node = "none"
    /\ session = <<>>
    /\ session_turns = 0
    /\ has_user_message = FALSE
    /\ optional_asked = FALSE
    /\ feature_complete = FALSE
    /\ missing_features = {}
    /\ asked = "nothing"

\* chat() and the test router hand the graph a state holding only messages
\* (and user features); search_agent_node clears the stored search results
\* before agent.invoke.
TurnFresh ==
    /\ last_rag_query = ""
    /\ search_results = <<>>
    /\ result_quality = "none"
    /\ error_type = "none"
    /\ refined_query = NoQuery
    /\ retry_count = 0
    /\ tried_queries = <<>>
    /\ fallback_triggered = FALSE
    /\ final_response = "none"
    /\ pending_grading = NoneV
    /\ current_must_visit = FALSE
    /\ last_search_results = NoneV
    /\ module_search_results = NoneV
    /\ tool_call = [query |-> "", search_mode |-> "balanced"]
    /\ attempts = 0
    /\ last_retrieval = <<>>
    /\ cycle = NoCycle
    /\ rewriter_out = "not_called"
    /\ grader_out = NoGrader
    /\ fallback_calls = 0
    /\ fallback_input = NoneV
    /\ terminal = FALSE
    /\ ever_found = FALSE
    /\ fallback_llm = "not_called"

\* the agent loop is not being followed
TurnIdle ==
    /\ pc = "idle"
    /\ user_features = [kind |-> "absent", must_visit |-> FALSE]
    /\ ctx_propagates = FALSE
    /\ TurnFresh

Init ==
    /\ pc = "grading"
    /\ user_features \in
          {[kind |-> "absent", must_visit |-> FALSE]}
          \cup [kind : UserFeatureKinds \ {"absent"}, must_visit : BOOLEAN]
    /\ ctx_propagates \in BOOLEAN
    /\ TurnFresh
    /\ SearchIdle
    /\ ConcIdle
    /\ EncoderIdle
    /\ LookupIdle
    /\ SessionIdle

\* ------------------------------------------------- DocumentGradingMiddleware
\* the strings of the model that str.lower() changes
LowerCase ==
    ("Yes" :> "yes") @@ ("Miami" :> "miami") @@
    ("Miami Beach" :> "miami beach") @@ ("Hialeah" :> "hialeah") @@
    ("Coral Gables" :> "coral gables") @@
    ("Fort Lauderdale" :> "fort lauderdale") @@
    ("Hollywood" :> "hollywood") @@ ("Pompano Beach" :> "pompano beach") @@
    ("Boca Raton" :> "boca raton") @@
    ("Deerfield Beach" :> "deerfield beach") @@ ("Aventura" :> "aventura") @@
    ("Key West" :> "key west") @@ ("Key Largo" :> "key largo") @@
    ("Islamorada" :> "islamorada") @@ ("Marathon" :> "marathon") @@
    ("Big Pine Key" :> "big pine key") @@ ("Tavernier" :> "tavernier") @@
    ("Orlando" :> "orlando") @@ ("Kissimmee" :> "kissimmee") @@
    ("Winter Park" :> "winter park") @@
    ("Lake Buena Vista" :> "lake buena vista") @@ ("Sanford" :> "sanford") @@
    ("Altamonte Springs" :> "altamonte springs") @@ ("Tampa" :> "tampa") @@
    ("St. Petersburg" :> "st. petersburg") @@
    ("Clearwater" :> "clearwater") @@ ("Brandon" :> "brandon") @@
    ("Largo" :> "largo") @@ ("Palm Harbor" :> "palm harbor") @@
    ("Jacksonville" :> "jacksonville") @@
    ("Jacksonville Beach" :> "jacksonville beach") @@
    ("Neptune Beach" :> "neptune beach") @@
    ("Atlantic Beach" :> "atlantic beach") @@
    ("St. Augustine" :> "st. augustine") @@ ("Naples" :> "naples") @@
    ("Marco Island" :> "marco island") @@
    ("Bonita Springs" :> "bonita springs") @@
    ("West Palm Beach" :> "west palm beach") @@
    ("Palm Beach" :> "palm beach") @@ ("Delray Beach" :> "delray beach") @@
    ("Boynton Beach" :> "boynton beach") @@ ("Key" :> "key") @@
    ("West" :> "west") @@ ("Paris" :> "paris") @@ ("AND" :> "and") @@
    ("And" :> "and") @@ ("MIAMI" :> "miami") @@
    ("Miami Gardens" :> "miami gardens") @@ ("Beach" :> "beach") @@
    ("The" :> "the")

\* str.lower(): binary_score.lower(), city.lower(), destination.lower(),
\* text.lower()
Lower(s) == IF s \in DOMAIN LowerCase THEN LowerCase[s] ELSE s

\* variant: a relevant result whose must-visit flag is false, with no
\* must-visit places requested, graded poor without an error type
GradeVerdict_noerror(g, must_visit) ==
    LET is_relevant == Lower(g.binary_score) = "yes"
        must_visit_covered == g.must_visit_covered
    IN  IF is_relevant /\ must_visit_covered
        THEN [result_quality |-> "good", error_type |-> "none"]
        ELSE IF ~must_visit_covered /\ must_visit
        THEN [result_quality |-> "poor", error_type |-> "missing_must_visit"]
        ELSE IF ~is_relevant
        THEN [result_quality |-> "poor", error_type |-> "irrelevant"]
        ELSE [result_quality |-> "poor", error_type |-> "none"]

\* quality / error_type decided from a GradeDocuments answer
GradeVerdict(g, must_visit) ==
    LET is_relevant == Lower(g.binary_score) = "yes"
        must_visit_covered == g.must_visit_covered
    IN  IF is_relevant /\ must_visit_covered
        THEN [result_quality |-> "good", error_type |-> "none"]
        ELSE IF ~must_visit_covered /\ must_visit
        THEN [result_quality |-> "poor", error_type |-> "missing_must_visit"]
        ELSE [result_quality |-> "poor", error_type |-> "irrelevant"]

\* variant: a failed grading stored as a poor grade
PendingUpdate_failpoor(g, query, results, must_visit) ==
    IF g.kind # "ok"
    THEN [graded |-> TRUE, last_rag_query |-> query,
          result_quality |-> "poor", error_type |-> "irrelevant",
          search_results |-> results]
    ELSE LET v == GradeVerdict(g, must_visit)
         IN  [graded |-> TRUE, last_rag_query |-> query,
              result_quality |-> v.result_quality,
              error_type |-> v.error_type, search_results |-> results]

\* the dict wrap_tool_call leaves in _pending_grading
PendingUpdate(g, query, results, must_visit) ==
    IF g.kind # "ok"
    THEN [graded |-> FALSE, last_rag_query |-> "", result_quality |-> "none",
          error_type |-> "none", search_results |-> results]
    ELSE LET v == GradeVerdict(g, must_visit)
         IN  [graded |-> TRUE, last_rag_query |-> query,
              result_quality |-> v.result_quality,
              error_type |-> v.error_type, search_results |-> results]

\* variant: the pending update is handed over but not cleared
GradingBeforeModel_keeps ==
    /\ pc = "grading"
    /\ current_must_visit' =
          (user_features.kind = "model" /\ user_features.must_visit)
    /\ IF pending_grading # NoneV
       THEN LET u == pending_grading[1]
            IN  /\ search_results' = u.search_results
                /\ last_rag_query' =
                      IF u.graded THEN u.last_rag_query ELSE last_rag_query
                /\ result_quality' =
                      IF u.graded THEN u.result_quality ELSE result_quality
                /\ error_type' =
                      IF u.graded THEN u.error_type ELSE error_type
                /\ cycle' = [grade |-> (IF u.graded THEN u.result_quality
                                        ELSE "ungraded"),
                             refined |-> FALSE, fellback |-> FALSE]
       ELSE /\ UNCHANGED <<search_results, last_rag_query, result_quality,
                           error_type>>
            /\ cycle' = NoCycle
    /\ pending_grading' = pending_grading
    /\ rewriter_out' = "not_called"
    /\ grader_out' = NoGrader
    /\ pc' = "refiner"
    /\ UNCHANGED <<refined_query, retry_count, tried_queries,
                   fallback_triggered, final_response, user_features,
                   last_search_results, module_search_results, ctx_propagates,
                   tool_call, attempts, last_retrieval, fallback_calls,
                   fallback_input, terminal, ever_found, fallback_llm>>
    /\ UNCHANGED other_vars

\* before_model: remember must_visit, hand over the pending update once
GradingBeforeModel ==
    /\ pc = "grading"
    /\ current_must_visit' =
          (user_features.kind = "model" /\ user_features.must_visit)
    /\ IF pending_grading # NoneV
       THEN LET u == pending_grading[1]
            IN  /\ search_results' = u.search_results
                /\ last_rag_query' =
                      IF u.graded THEN u.last_rag_query ELSE last_rag_query
                /\ result_quality' =
                      IF u.graded THEN u.result_quality ELSE result_quality
                /\ error_type' =
                      IF u.graded THEN u.error_type ELSE error_type
                /\ cycle' = [grade |-> (IF u.graded THEN u.result_quality
                                        ELSE "ungraded"),
                             refined |-> FALSE, fellback |-> FALSE]
       ELSE /\ UNCHANGED <<search_results, last_rag_query, result_quality,
                           error_type>>
            /\ cycle' = NoCycle
    /\ pending_grading' = NoneV
    /\ rewriter_out' = "not_called"
    /\ grader_out' = NoGrader
    /\ pc' = "refiner"
    /\ UNCHANGED <<refined_query, retry_count, tried_queries,
                   fallback_triggered, final_response, user_features,
                   last_search_results, module_search_results, ctx_propagates,
                   tool_call, attempts, last_retrieval, fallback_calls,
                   fallback_input, terminal, ever_found, fallback_llm>>
    /\ UNCHANGED other_vars

\* wrap_tool_call around search_pois: run the tool, grade, stash the grade
ToolCall ==
    /\ pc = "tools"
    /\ \E results \in ResultLists, g \in GraderOutputs :
          LET ctx == IF ctx_propagates THEN Some(results)
                     ELSE last_search_results
              mod == Some(results)
          IN  /\ last_search_results' = ctx
              /\ module_search_results' = mod
              /\ pending_grading' =
                    Some(PendingUpdate(g, tool_call.query,
                                       get_last_search_results(ctx, mod),
                                       current_must_visit))
              /\ last_retrieval' = results
              /\ ever_found' = (ever_found \/ results # <<>>)
              /\ grader_out' = g
    /\ attempts' = attempts + 1
    /\ pc' = "grading"
    /\ UNCHANGED <<state_vars, current_must_visit, ctx_propagates, tool_call,
                   cycle, rewriter_out, fallback_calls, fallback_input,
                   terminal, fallback_llm>>
    /\ UNCHANGED other_vars

\* --------------------------------------------------- QueryRefinerMiddleware
\* variant: the retry bound compared inclusively
should_refine_inclusive(quality, count, err) ==
    quality = "poor" /\ count <= max_retry /\ err # "none"

should_refine(quality, count, err) ==
    quality = "poor" /\ count < max_retry /\ err # "none"

\* _refine_query: the refined text, or None when the chain fails
refine_query(out) == IF out = "fail" THEN NoneV ELSE Some(out)

\* "if refined:" -- neither None nor the empty string
Truthy(refined) == refined # NoneV /\ refined[1] # ""

\* variant: the counter read under a wrong key, so the default 0 is used
RefinerUpdate_lostcount(refined, count, tried) ==
    [refined_query |-> refined,
     retry_count |-> 0 + 1,
     tried_queries |-> Append(tried, refined)]

\* variant: the list of tried queries restarted at every refine
RefinerUpdate_restarts(refined, count, tried) ==
    [refined_query |-> refined,
     retry_count |-> count + 1,
     tried_queries |-> <<refined>>]

\* the dict before_model returns when the rewriter produced a text
RefinerUpdate(refined, count, tried) ==
    [refined_query |-> refined,
     retry_count |-> count + 1,
     tried_queries |-> Append(tried, refined)]

RefinerBeforeModel ==
    /\ pc = "refiner"
    /\ IF should_refine(result_quality, retry_count, error_type)
       THEN \E out \in RewriterOutputs :
               LET refined == refine_query(out)
                   u == RefinerUpdate(refined[1], retry_count, tried_queries)
               IN  /\ rewriter_out' = out
                   /\ IF Truthy(refined)
                      THEN /\ refined_query' = u.refined_query
                           /\ retry_count' = u.retry_count
                           /\ tried_queries' = u.tried_queries
                           /\ cycle' = [cycle EXCEPT !.refined = TRUE]
                      ELSE UNCHANGED <<refined_query, retry_count,
                                       tried_queries, cycle>>
       ELSE UNCHANGED <<refined_query, retry_count, tried_queries, cycle,
                        rewriter_out>>
    /\ pc' = "fallback"
    /\ UNCHANGED <<last_rag_query, search_results, result_quality, error_type,
                   fallback_triggered, final_response, user_features,
                   pending_grading, current_must_visit, last_search_results,
                   module_search_results, ctx_propagates, tool_call, attempts,
                   last_retrieval, grader_out, fallback_calls, fallback_input,
                   terminal, ever_found, fallback_llm>>
    /\ UNCHANGED other_vars

\* -------------------------------------------------------- FallbackMiddleware
\* variant: the retry bound compared strictly
poor_quality_exhausted_strict(quality, count, triggered) ==
    quality = "poor" /\ count > max_retry /\ ~triggered

poor_quality_exhausted(quality, count, triggered) ==
    quality = "poor" /\ count >= max_retry /\ ~triggered

\* variant: search_was_done taken from the truthiness of the raw list
empty_results_truthiness(raw, triggered) ==
    LET search_was_done == raw # NoneV /\ raw[1] # <<>>
        results == IF raw # NoneV THEN raw[1] ELSE <<>>
    IN  Len(results) = 0 /\ search_was_done /\ ~triggered

\* variant: the length test left out
empty_results_nolen(raw, triggered) ==
    LET search_was_done == raw # NoneV
    IN  search_was_done /\ ~triggered

empty_results(raw, triggered) ==
    LET search_was_done == raw # NoneV
        results == IF raw # NoneV THEN raw[1] ELSE <<>>
    IN  Len(results) = 0 /\ search_was_done /\ ~triggered

should_fallback(quality, count, triggered, raw) ==
    poor_quality_exhausted(quality, count, triggered)
        \/ empty_results(raw, triggered)

\* what self.fallback_llm.invoke does: answer with a message, answer with
\* an object that has no content attribute, or raise
FallbackLLMOutcomes == {"content", "no_content", "raise"}

\* variant: the exception handler returns nothing instead of the apology
generate_with_fallback_silent(outcome) ==
    IF outcome = "raise" THEN "none" ELSE "generated"

\* _generate_with_fallback: the response text; the apology when the call
\* raises
generate_with_fallback(outcome) ==
    IF outcome = "raise" THEN "apology" ELSE "generated"

FallbackBeforeModel ==
    /\ pc = "fallback"
    /\ IF should_fallback(result_quality, retry_count, fallback_triggered,
                          get_last_search_results_raw(last_search_results,
                                                      module_search_results))
       THEN \E outcome \in FallbackLLMOutcomes :
               /\ fallback_triggered' = TRUE
               /\ final_response' = generate_with_fallback(outcome)
               /\ fallback_llm' = outcome
               /\ fallback_calls' = fallback_calls + 1
               /\ fallback_input' = Some(search_results)
               /\ cycle' = [cycle EXCEPT !.fellback = TRUE]
       ELSE UNCHANGED <<fallback_triggered, final_response, fallback_calls,
                        fallback_input, cycle, fallback_llm>>
    /\ terminal' = (terminal \/ result_quality = "good" \/ fallback_triggered')
    /\ pc' = "model"
    /\ UNCHANGED <<last_rag_query, search_results, result_quality, error_type,
                   refined_query, retry_count, tried_queries, user_features,
                   pending_grading, current_must_visit, last_search_results,
                   module_search_results, ctx_propagates, tool_call, attempts,
                   last_retrieval, rewriter_out, grader_out,
                   ever_found>>
    /\ UNCHANGED other_vars

\* ---------------------------------------------------------------- the agent
\* the model answers with a search_pois tool call of its own choosing
ModelCallsTool ==
    /\ pc = "model"
    /\ attempts < MaxAttempts
    /\ \E q \in Queries, m \in SearchModes :
          tool_call' = [query |-> q, search_mode |-> m]
    /\ pc' = "tools"
    /\ UNCHANGED <<state_vars, pending_grading, current_must_visit,
                   last_search_results, module_search_results, ctx_propagates,
                   attempts, last_retrieval, cycle, rewriter_out,
                   grader_out,
                   fallback_calls, fallback_input, terminal, ever_found,
                   fallback_llm>>
    /\ UNCHANGED other_vars

\* the model answers without a tool call: the agent returns
ModelFinishes ==
    /\ pc = "model"
    /\ pc' = "done"
    /\ UNCHANGED <<state_vars, pending_grading, current_must_visit,
                   last_search_results, module_search_results, ctx_propagates,
                   tool_call, attempts, last_retrieval, cycle, rewriter_out,
                   grader_out,
                   fallback_calls, fallback_input, terminal, ever_found,
                   fallback_llm>>
    /\ UNCHANGED other_vars

Next ==
    \/ GradingBeforeModel
    \/ RefinerBeforeModel
    \/ FallbackBeforeModel
    \/ ModelCallsTool
    \/ ModelFinishes
    \/ ToolCall

Spec == Init /\ [][Next]_vars

TypeOK ==
    /\ pc \in {"grading", "refiner", "fallback", "model", "tools", "done"}
    /\ result_quality \in {"none", "good", "poor"}
    /\ retry_count \in 0..(MaxAttempts + 1)
    /\ fallback_calls \in 0..1

\* ============================================================ db/search.py
\* A string the code takes apart is written as its sequence of tokens: a
\* word, a run of whitespace " ", or one of the characters "," "/" "&".

\* -------------------------------------------------------------------- bounds
\* documents in the backend's ranking
MaxPool == 3

\* largest top_k asked for
MaxTopK == 2

\* longest list the reranking service hands back
MaxRerankLen == 2

\* ---------------------------------------------------------- value domains
\* scores are counted in units of 1/ScoreScale, so that 1/(i+1) is exact
ScoreScale == 60

\* LangChain documents of the store: metadata id and city, page_content
Documents ==
    {[id |-> "poi_a", city |-> "Miami", page_content |-> "beach"],
     [id |-> "poi_b", city |-> "Hialeah", page_content |-> "beach"],
     [id |-> "poi_c", city |-> "Orlando", page_content |-> "park"],
     [id |-> "poi_d", city |-> "", page_content |-> "museum"]}

\* rankings of distinct documents the backend can hold for a query
Stores ==
    {s \in UNION {[1..n -> Documents] : n \in 0..MaxPool} :
        \A i, j \in DOMAIN s : i # j => s[i] # s[j]}

\* user_features.destination; <<>> stands for no user_features, None and ""
Destinations ==
    {<<>>,
     <<"Miami">>,
     <<"MIAMI">>,
     <<"Hialeah">>,
     <<"Paris">>,
     <<",">>,
     <<"Key", " ", "West">>,
     <<"Miami", " ", "AND", " ", "Orlando">>,
     <<"Orlando", ",", " ", "Paris">>}

\* items of the list ai.ai_rerank returns
RerankItems ==
    [document : {"beach", "park", "other"}, score : {10, 50}]

\* the rerank branch was not entered
NotCalled == [kind |-> "not_called", items |-> <<>>]

\* what the reranking service does when asked: get_ai_functions() gives
\* None, ai.ai_rerank raises, or it returns a list of items
RerankerOutcomes ==
    {[kind |-> k, items |-> <<>>] : k \in {"unavailable", "raise"}}
    \cup {[kind |-> "ok", items |-> s] :
            s \in UNION {[1..n -> RerankItems] : n \in 0..MaxRerankLen}}

\* ------------------------------------------------------------ city_aliases
CITY_ALIASES ==
    <<[main |-> "Miami",
       aliases |-> <<"Miami", "Miami Beach", "Hialeah", "Coral Gables",
                     "Fort Lauderdale", "Hollywood", "Pompano Beach",
                     "Boca Raton", "Deerfield Beach", "Aventura">>],
      [main |-> "Key West",
       aliases |-> <<"Key West", "Key Largo", "Islamorada", "Marathon",
                     "Big Pine Key", "Tavernier">>],
      [main |-> "Orlando",
       aliases |-> <<"Orlando", "Kissimmee", "Winter Park",
                     "Lake Buena Vista", "Sanford", "Altamonte Springs">>],
      [main |-> "Tampa",
       aliases |-> <<"Tampa", "St. Petersburg", "Clearwater", "Brandon",
                     "Largo", "Palm Harbor">>],
      [main |-> "Jacksonville",
       aliases |-> <<"Jacksonville", "Jacksonville Beach", "Neptune Beach",
                     "Atlantic Beach", "St. Augustine">>],
      [main |-> "Naples",
       aliases |-> <<"Naples", "Marco Island", "Bonita Springs">>],
      [main |-> "West Palm Beach",
       aliases |-> <<"West Palm Beach", "Palm Beach", "Delray Beach",
                     "Boynton Beach">>]>>

\* the elements of a list
Range(s) == {s[i] : i \in DOMAIN s}

\* the string a token sequence spells
RECURSIVE Join(_)
Join(toks) == IF toks = <<>> THEN "" ELSE Head(toks) \o Join(Tail(toks))

\* str.lower() on a token string
LowerToks(toks) == [i \in DOMAIN toks |-> Lower(toks[i])]

RECURSIVE lstrip(_)
lstrip(toks) ==
    IF toks # <<>> /\ Head(toks) = " " THEN lstrip(Tail(toks)) ELSE toks

RECURSIVE rstrip(_)
rstrip(toks) ==
    IF toks # <<>> /\ toks[Len(toks)] = " "
    THEN rstrip(SubSeq(toks, 1, Len(toks) - 1))
    ELSE toks

\* str.strip()
strip(toks) == rstrip(lstrip(toks))

\* re.split(r"\s+and\s+|,\s*|/\s*|\s*&\s*", destination, flags=re.IGNORECASE):
\* the pieces between the leftmost matches, empty pieces included
RECURSIVE re_split(_, _)
re_split(rest, piece) ==
    LET n == Len(rest)
    IN  IF n = 0 THEN <<piece>>
        ELSE IF n >= 3 /\ rest[1] = " " /\ Lower(rest[2]) = "and"
                /\ rest[3] = " "
        THEN <<piece>> \o re_split(lstrip(SubSeq(rest, 4, n)), <<>>)
        ELSE IF rest[1] \in {",", "/", "&"}
        THEN <<piece>> \o re_split(lstrip(Tail(rest)), <<>>)
        ELSE IF n >= 2 /\ rest[1] = " " /\ rest[2] = "&"
        THEN <<piece>> \o re_split(lstrip(SubSeq(rest, 3, n)), <<>>)
        ELSE re_split(Tail(rest), Append(piece, rest[1]))

\* parse_destination that keeps the pieces as re.split returns them
parse_destination_untrimmed(dest) ==
    IF dest = <<>> THEN <<>> ELSE re_split(dest, <<>>)

\* parse_destination: the trimmed non-empty pieces, in order
parse_destination(dest) ==
    IF dest = <<>> THEN <<>>
    ELSE LET parts == re_split(dest, <<>>)
             kept == SelectSeq(parts, LAMBDA p : strip(p) # <<>>)
         IN  [i \in DOMAIN kept |-> strip(kept[i])]

\* get_city_variations that looks at the main cities only
get_city_variations_mainonly(dest) ==
    LET dest_lower == Join(strip(LowerToks(dest)))
        hits == {i \in DOMAIN CITY_ALIASES :
                    dest_lower = Lower(CITY_ALIASES[i].main)}
    IN  IF hits # {}
        THEN CITY_ALIASES[CHOOSE i \in hits : \A j \in hits : i <= j].aliases
        ELSE <<Join(dest)>>

\* get_city_variations: the alias list of the first metro area the name
\* belongs to, or the name itself
get_city_variations(dest) ==
    LET dest_lower == Join(strip(LowerToks(dest)))
        hits == {i \in DOMAIN CITY_ALIASES :
                    \/ dest_lower = Lower(CITY_ALIASES[i].main)
                    \/ \E a \in Range(CITY_ALIASES[i].aliases) :
                          dest_lower = Lower(a)}
    IN  IF hits # {}
        THEN CITY_ALIASES[CHOOSE i \in hits : \A j \in hits : i <= j].aliases
        ELSE <<Join(dest)>>

\* get_all_valid_cities: lower-cased union of the variations
get_all_valid_cities(destinations) ==
    UNION {{Lower(c) : c \in Range(get_city_variations(d))} :
              d \in Range(destinations)}

\* ---------------------------------------------------------------- search
\* list[:n]
Take(s, n) == SubSeq(s, 1, IF n < Len(s) THEN n ELSE Len(s))

\* store.advanced_hybrid_search(..., k): the k best documents of the ranking
advanced_hybrid_search(ranking, k) == Take(ranking, k)

\* variant: an emptied filter result is returned as it is
filter_by_destination_nofallback(results, dest) ==
    IF dest = <<>> THEN results
    ELSE LET destinations == parse_destination(dest)
         IN  IF destinations = <<>> THEN results
             ELSE LET valid_cities_lower == get_all_valid_cities(destinations)
                  IN  SelectSeq(results,
                                LAMBDA doc : /\ doc.city # ""
                                             /\ Lower(doc.city)
                                                   \in valid_cities_lower)

\* variant: the city compared without lower-casing it
filter_by_destination_casesensitive(results, dest) ==
    IF dest = <<>> THEN results
    ELSE LET destinations == parse_destination(dest)
         IN  IF destinations = <<>> THEN results
             ELSE LET valid_cities_lower == get_all_valid_cities(destinations)
                      filtered ==
                          SelectSeq(results,
                                    LAMBDA doc : /\ doc.city # ""
                                                 /\ doc.city
                                                       \in valid_cities_lower)
                  IN  IF filtered = <<>> /\ results # <<>>
                      THEN results
                      ELSE filtered

\* filter_by_destination: documents of the destination's metro areas, or
\* all of them when none is
filter_by_destination(results, dest) ==
    IF dest = <<>> THEN results
    ELSE LET destinations == parse_destination(dest)
         IN  IF destinations = <<>> THEN results
             ELSE LET valid_cities_lower == get_all_valid_cities(destinations)
                      filtered ==
                          SelectSeq(results,
                                    LAMBDA doc : /\ doc.city # ""
                                                 /\ Lower(doc.city)
                                                       \in valid_cities_lower)
                  IN  IF filtered = <<>> /\ results # <<>>
                      THEN results
                      ELSE filtered

\* the fallback list of rerank_results: the first top_k texts in order
original_order(documents, k) ==
    [i \in 1..Len(Take(documents, k)) |->
        [document |-> documents[i], score |-> ScoreScale \div i]]

\* rerank_results: the service's list, or the original order when the
\* service is missing or raises
rerank_results(documents, k, r) ==
    IF documents = <<>> THEN [raised |-> FALSE, items |-> <<>>]
    ELSE IF r.kind = "unavailable"
    THEN [raised |-> FALSE, items |-> original_order(documents, k)]
    ELSE IF r.kind = "raise"
    THEN [raised |-> FALSE, items |-> original_order(documents, k)]
    ELSE [raised |-> FALSE, items |-> r.items]

\* variant: the over-fetch for the destination filter left out
candidate_pool_size_nofilter(k, dest, rerank) ==
    LET rerank_multiplier == IF rerank THEN 2 ELSE 1
    IN  k * rerank_multiplier

\* candidate_k = top_k * filter_multiplier * rerank_multiplier
candidate_pool_size(k, dest, rerank) ==
    LET filter_multiplier == IF dest # <<>> THEN 3 ELSE 1
        rerank_multiplier == IF rerank THEN 2 ELSE 1
    IN  k * filter_multiplier * rerank_multiplier

\* whether hybrid_search enters the rerank branch
rerank_entered(results, rerank) == rerank /\ Len(results) > 1

\* {doc.page_content: doc for doc in results}[text]: the last such document
doc_by_text(results, text) ==
    results[CHOOSE i \in DOMAIN results :
               /\ results[i].page_content = text
               /\ \A j \in DOMAIN results :
                     results[j].page_content = text => j <= i]

\* variant: an unusable rerank answer leaves the result list empty
rerank_phase_nofallback(results, k, rerank, r) ==
    IF rerank_entered(results, rerank)
    THEN LET doc_texts == [i \in DOMAIN results |-> results[i].page_content]
             reranked == rerank_results(doc_texts, k, r)
             usable == SelectSeq(reranked.items,
                                 LAMBDA item :
                                     item.document \in Range(doc_texts))
             sorted_results ==
                 [i \in DOMAIN usable |->
                     [doc |-> doc_by_text(results, usable[i].document),
                      score |-> usable[i].score]]
         IN  [raised |-> reranked.raised, results |-> sorted_results]
    ELSE [raised |-> FALSE,
          results |-> [i \in DOMAIN Take(results, k) |->
                          [doc |-> results[i], score |-> ScoreScale \div i]]]

\* Phase 2 of hybrid_search: the documents to return, each with its score
rerank_phase(results, k, rerank, r) ==
    LET truncated ==
            [i \in DOMAIN Take(results, k) |->
                [doc |-> results[i], score |-> ScoreScale \div i]]
    IN  IF rerank_entered(results, rerank)
        THEN LET doc_texts ==
                     [i \in DOMAIN results |-> results[i].page_content]
                 reranked == rerank_results(doc_texts, k, r)
                 usable == SelectSeq(reranked.items,
                                     LAMBDA item :
                                         item.document \in Range(doc_texts))
                 sorted_results ==
                     [i \in DOMAIN usable |->
                         [doc |-> doc_by_text(results, usable[i].document),
                          score |-> usable[i].score]]
             IN  [raised |-> reranked.raised,
                  results |-> IF sorted_results # <<>> THEN sorted_results
                              ELSE truncated]
        ELSE [raised |-> FALSE, results |-> truncated]

\* the POIResult built from a document and its score
POIResult(doc, score) ==
    [id |-> doc.id, city |-> doc.city,
     editorial_summary |-> doc.page_content, score |-> score]

\* hybrid_search: what is asked of the backend, what comes back at each
\* stage, and the returned list
hybrid_search(ranking, dest, k, rerank, r) ==
    LET ck == candidate_pool_size(k, dest, rerank)
        results == advanced_hybrid_search(ranking, ck)
        filtered == IF dest # <<>>
                    THEN filter_by_destination(results, dest)
                    ELSE results
        phase2 == rerank_phase(filtered, k, rerank, r)
    IN  [candidate_k |-> ck,
         pool |-> results,
         candidates |-> IF results = <<>> THEN <<>> ELSE filtered,
         raised |-> results # <<>> /\ filtered # <<>> /\ phase2.raised,
         poi_results |->
             IF results = <<>> \/ filtered = <<>> THEN <<>>
             ELSE [i \in DOMAIN phase2.results |->
                      POIResult(phase2.results[i].doc,
                                phase2.results[i].score)]]

\* a caller (search_pois, the search and test routers) is about to call
\* hybrid_search
InitSearch ==
    /\ hs_pc = "called"
    /\ store \in Stores
    /\ destination \in Destinations
    /\ top_k \in 1..MaxTopK
    /\ use_rerank \in BOOLEAN
    /\ reranker = NotCalled
    /\ candidate_k = 0
    /\ backend_calls = 0
    /\ pool = <<>>
    /\ candidates = <<>>
    /\ poi_results = <<>>
    /\ TurnIdle
    /\ ConcIdle
    /\ EncoderIdle
    /\ LookupIdle
    /\ SessionIdle

\* one call of hybrid_search, from the backend query to the returned list
HybridSearch ==
    /\ hs_pc = "called"
    /\ \E entered \in {rerank_entered(
                          hybrid_search(store, destination, top_k,
                                        use_rerank, NotCalled).candidates,
                          use_rerank)} :
       \E r \in IF entered THEN RerankerOutcomes ELSE {NotCalled} :
       \E out \in {hybrid_search(store, destination, top_k, use_rerank, r)} :
          /\ reranker' = r
          /\ candidate_k' = out.candidate_k
          /\ pool' = out.pool
          /\ candidates' = out.candidates
          /\ poi_results' = out.poi_results
          /\ hs_pc' = IF out.raised THEN "raised" ELSE "returned"
    /\ backend_calls' = backend_calls + 1
    /\ UNCHANGED <<store, destination, top_k, use_rerank>>
    /\ UNCHANGED <<private_vars, shared_vars, conc_vars, aux_vars>>

NextSearch == HybridSearch

SpecSearch == InitSearch /\ [][NextSearch]_vars

\* ================================================= turns side by side
\* The chat stream endpoint runs each request's graph invocation in a worker
\* thread (asyncio.to_thread), so several turns can be inside the search
\* agent of the one compiled graph at once.  Every turn has its own
\* CRAGState and its own context (contextvars are copied per thread); the
\* DocumentGradingMiddleware instance and the module global of
\* tools/search.py are the same objects for all of them.  A step of a turn
\* is one hook or one tool execution.

\* -------------------------------------------------------------------- bounds
\* search_pois executions of one turn
MaxTurnSearches == 1

\* ---------------------------------------------------------- value domains
\* the turns in flight
Turns == {"A", "B"}

\* no turn
NoTurn == "none"

\* what the agent LLM asks for and what comes back, per turn
TurnQueries == {"q1"}

TurnResultLists == {<<>>, <<"p1">>}

TurnRewriterOutputs == {"fail", "q1"}

\* state["user_features"] of each turn: one user named must-visit places
TurnUserFeatures ==
    [t \in Turns |->
        IF t = "A" THEN [kind |-> "model", must_visit |-> TRUE]
        ELSE [kind |-> "absent", must_visit |-> FALSE]]

\* the state a turn enters the graph with
FreshTurn(features) ==
    [pc |-> "idle",
     last_rag_query |-> "",
     search_results |-> <<>>,
     result_quality |-> "none",
     error_type |-> "none",
     refined_query |-> NoQuery,
     retry_count |-> 0,
     tried_queries |-> <<>>,
     fallback_triggered |-> FALSE,
     final_response |-> "none",
     user_features |-> features,
     last_search_results |-> NoneV,
     tool_call |-> [query |-> "", search_mode |-> "balanced"],
     attempts |-> 0]

InitConc ==
    /\ turns = [t \in Turns |-> FreshTurn(TurnUserFeatures[t])]
    /\ pending_owner = NoTurn
    /\ module_owner = NoTurn
    /\ pc = "idle"
    /\ user_features = [kind |-> "absent", must_visit |-> FALSE]
    /\ ctx_propagates \in BOOLEAN
    /\ TurnFresh
    /\ SearchIdle
    /\ EncoderIdle
    /\ LookupIdle
    /\ SessionIdle

\* search_agent_node up to agent.invoke: the stored results are cleared
StartTurn(t) ==
    /\ turns[t].pc = "idle"
    /\ turns' = [turns EXCEPT ![t].pc = "grading",
                              ![t].last_search_results = NoneV]
    /\ module_search_results' = NoneV
    /\ module_owner' = NoTurn
    /\ UNCHANGED <<pending_grading, current_must_visit, ctx_propagates,
                   pending_owner>>
    /\ UNCHANGED <<private_vars, search_vars, aux_vars>>

\* DocumentGradingMiddleware.before_model in turn t
TurnGrading(t) ==
    LET s == turns[t]
    IN  /\ s.pc = "grading"
        /\ current_must_visit' =
              (s.user_features.kind = "model" /\ s.user_features.must_visit)
        /\ IF pending_grading # NoneV
           THEN LET u == pending_grading[1]
                IN  turns' =
                      [turns EXCEPT
                         ![t].search_results = u.search_results,
                         ![t].last_rag_query =
                             IF u.graded THEN u.last_rag_query ELSE @,
                         ![t].result_quality =
                             IF u.graded THEN u.result_quality ELSE @,
                         ![t].error_type =
                             IF u.graded THEN u.error_type ELSE @,
                         ![t].pc = "refiner"]
           ELSE turns' = [turns EXCEPT ![t].pc = "refiner"]
        /\ pending_grading' = NoneV
        /\ pending_owner' = NoTurn
        /\ UNCHANGED <<module_search_results, ctx_propagates, module_owner>>
        /\ UNCHANGED <<private_vars, search_vars, aux_vars>>

\* wrap_tool_call around search_pois in turn t
TurnToolCall(t) ==
    LET s == turns[t]
    IN  /\ s.pc = "tools"
        /\ \E results \in TurnResultLists, g \in GraderOutputs :
              LET ctx == IF ctx_propagates THEN Some(results)
                         ELSE s.last_search_results
                  mod == Some(results)
              IN  /\ turns' = [turns EXCEPT
                                 ![t].last_search_results = ctx,
                                 ![t].attempts = @ + 1,
                                 ![t].pc = "grading"]
                  /\ module_search_results' = mod
                  /\ pending_grading' =
                        Some(PendingUpdate(g, s.tool_call.query,
                                           get_last_search_results(ctx, mod),
                                           current_must_visit))
        /\ pending_owner' = t
        /\ module_owner' = t
        /\ UNCHANGED <<current_must_visit, ctx_propagates>>
        /\ UNCHANGED <<private_vars, search_vars, aux_vars>>

\* QueryRefinerMiddleware.before_model in turn t
TurnRefiner(t) ==
    LET s == turns[t]
    IN  /\ s.pc = "refiner"
        /\ IF should_refine(s.result_quality, s.retry_count, s.error_type)
           THEN \E out \in TurnRewriterOutputs :
                   LET refined == refine_query(out)
                       u == RefinerUpdate(refined[1], s.retry_count,
                                          s.tried_queries)
                   IN  IF Truthy(refined)
                       THEN turns' =
                              [turns EXCEPT
                                 ![t].refined_query = u.refined_query,
                                 ![t].retry_count = u.retry_count,
                                 ![t].tried_queries = u.tried_queries,
                                 ![t].pc = "fallback"]
                       ELSE turns' = [turns EXCEPT ![t].pc = "fallback"]
           ELSE turns' = [turns EXCEPT ![t].pc = "fallback"]
        /\ UNCHANGED <<shared_vars, pending_owner, module_owner>>
        /\ UNCHANGED <<private_vars, search_vars, aux_vars>>

\* FallbackMiddleware.before_model in turn t
TurnFallback(t) ==
    LET s == turns[t]
    IN  /\ s.pc = "fallback"
        /\ IF should_fallback(s.result_quality, s.retry_count,
                              s.fallback_triggered,
                              get_last_search_results_raw(
                                  s.last_search_results,
                                  module_search_results))
           THEN \E outcome \in FallbackLLMOutcomes :
                   turns' =
                     [turns EXCEPT
                        ![t].fallback_triggered = TRUE,
                        ![t].final_response = generate_with_fallback(outcome),
                        ![t].pc = "model"]
           ELSE turns' = [turns EXCEPT ![t].pc = "model"]
        /\ UNCHANGED <<shared_vars, pending_owner, module_owner>>
        /\ UNCHANGED <<private_vars, search_vars, aux_vars>>

\* the model of turn t answers with a search_pois tool call
TurnModelCallsTool(t) ==
    /\ turns[t].pc = "model"
    /\ turns[t].attempts < MaxTurnSearches
    /\ \E q \in TurnQueries :
          turns' = [turns EXCEPT
                      ![t].tool_call = [query |-> q,
                                        search_mode |-> "balanced"],
                      ![t].pc = "tools"]
    /\ UNCHANGED <<shared_vars, pending_owner, module_owner>>
    /\ UNCHANGED <<private_vars, search_vars, aux_vars>>

\* the model of turn t answers without a tool call
TurnModelFinishes(t) ==
    /\ turns[t].pc = "model"
    /\ turns' = [turns EXCEPT ![t].pc = "done"]
    /\ UNCHANGED <<shared_vars, pending_owner, module_owner>>
    /\ UNCHANGED <<private_vars, search_vars, aux_vars>>

NextConc ==
    \/ \E t \in Turns : StartTurn(t)
    \/ \E t \in Turns : TurnGrading(t)
    \/ \E t \in Turns : TurnRefiner(t)
    \/ \E t \in Turns : TurnFallback(t)
    \/ \E t \in Turns : TurnModelCallsTool(t)
    \/ \E t \in Turns : TurnModelFinishes(t)
    \/ \E t \in Turns : TurnToolCall(t)

SpecConc == InitConc /\ [][NextConc]_vars

\* ================================================= turns one after another
\* The same turns, entered one at a time: a request's graph invocation
\* starts only when no other turn is inside the search agent.  A turn ends
\* when the agent returns, or when search_pois raises: wrap_tool_call calls
\* the handler outside its try block, search_agent_node calls agent.invoke
\* without one, and chat() answers the request with an error.

\* the positions at which a turn is not inside the search agent
Outside == {"idle", "done", "aborted"}

\* search_agent_node entered while no other turn is in the agent
SeqStartTurn(t) ==
    /\ \A o \in Turns \ {t} : turns[o].pc \in Outside
    /\ StartTurn(t)

\* the tools node of turn t fails: a search_pois call of the AI message
\* raises.  The message may carry a second search_pois call that returned
\* and was graded before the exception left the node.
TurnToolRaises(t) ==
    LET s == turns[t]
    IN  /\ s.pc = "tools"
        /\ \/ /\ turns' = [turns EXCEPT ![t].pc = "aborted"]
              /\ UNCHANGED <<pending_grading, module_search_results,
                             pending_owner, module_owner>>
           \/ \E results \in TurnResultLists, g \in GraderOutputs :
                 LET ctx == IF ctx_propagates THEN Some(results)
                            ELSE s.last_search_results
                     mod == Some(results)
                 IN  /\ turns' = [turns EXCEPT
                                    ![t].last_search_results = ctx,
                                    ![t].attempts = @ + 1,
                                    ![t].pc = "aborted"]
                     /\ module_search_results' = mod
                     /\ pending_grading' =
                           Some(PendingUpdate(g, s.tool_call.query,
                                              get_last_search_results(ctx,
                                                                      mod),
                                              current_must_visit))
                     /\ pending_owner' = t
                     /\ module_owner' = t
        /\ UNCHANGED <<current_must_visit, ctx_propagates>>
        /\ UNCHANGED <<private_vars, search_vars, aux_vars>>

NextSeq ==
    \/ \E t \in Turns : SeqStartTurn(t)
    \/ \E t \in Turns : TurnGrading(t)
    \/ \E t \in Turns : TurnRefiner(t)
    \/ \E t \in Turns : TurnFallback(t)
    \/ \E t \in Turns : TurnModelCallsTool(t)
    \/ \E t \in Turns : TurnModelFinishes(t)
    \/ \E t \in Turns : TurnToolCall(t)
    \/ \E t \in Turns : TurnToolRaises(t)

SpecSeq == InitConc /\ [][NextSeq]_vars

\* ================================================= db/sparse_encoder.py
\* One TFIDFEncoder object and the calls made on it.  A text is the sequence
\* of its maximal runs of word characters; vocab and idf are functions from
\* terms; an IDF value ln(N / df) + 1 is kept as the pair (N, df) it is
\* computed from; a TF-IDF value as (tf, max_tf, idf).

\* longest corpus handed to fit
MaxDocs == 2

\* largest max_vocab_size given to the constructor
MaxVocab == 2

\* fit calls followed on one encoder
MaxFits == 2

\* STOPWORDS
STOPWORDS ==
    {"a", "an", "the", "in", "on", "at", "for", "with", "to", "from", "of",
     "by", "as", "into", "through", "during", "before", "after", "above",
     "below", "between", "under", "over", "out", "off", "down", "up",
     "and", "or", "but", "nor", "so", "yet", "both", "either", "neither",
     "i", "me", "my", "myself", "we", "our", "ours", "ourselves", "you",
     "your", "yours", "yourself", "yourselves", "he", "him", "his",
     "himself", "she", "her", "hers", "herself", "it", "its", "itself",
     "they", "them", "their", "theirs", "themselves", "this", "that",
     "these", "those", "who", "whom", "which", "what", "is", "are", "was",
     "were", "be", "been", "being", "has", "have", "had", "having", "do",
     "does", "did", "doing", "will", "would", "could", "should", "may",
     "might", "must", "can", "not", "no", "yes", "all", "any", "some",
     "each", "every", "more", "most", "other", "another", "such", "own",
     "same", "than", "too", "very", "just", "also", "now", "here", "there",
     "when", "where", "why", "how", "if", "then", "else", "because",
     "about", "against", "while", "although", "though", "unless", "until",
     "only", "again", "further", "once", "already", "always", "never",
     "place", "located", "offers", "features", "provides", "known"}

\* runs of word characters that start with a digit: \b[a-zA-Z]... matches
\* nowhere in them
DigitInitial == {"3d"}

\* documents a corpus is made of
CorpusDocs == {<<"Beach", "park">>, <<"park", "the", "x", "zoo", "3d">>}

\* corpora handed to fit
Corpora == UNION {[1..n -> CorpusDocs] : n \in 0..MaxDocs}

\* texts handed to encode
EncodeTexts ==
    {<<>>, <<"The", "x">>, <<"Beach", "beach", "park">>, <<"zoo", "3d">>}

\* a sequence without its later repeats: the insertion order of a Counter
RECURSIVE Dedup(_)
Dedup(s) ==
    IF s = <<>> THEN <<>>
    ELSE LET front == Dedup(SubSeq(s, 1, Len(s) - 1))
             last == s[Len(s)]
         IN  IF last \in Range(front) THEN front ELSE Append(front, last)

\* TFIDFEncoder.tokenize
tokenize(text) ==
    LET found == SelectSeq(text, LAMBDA w : w \notin DigitInitial)
        words == [i \in DOMAIN found |-> Lower(found[i])]
    IN  SelectSeq(words, LAMBDA w : w \notin STOPWORDS /\ Len(w) >= 2)

\* TFIDFEncoder.__init__
NewEncoder(max_vocab_size) ==
    [max_vocab_size |-> max_vocab_size,
     vocab |-> <<>>,
     idf |-> <<>>,
     doc_count |-> 0,
     fitted |-> FALSE]

\* the terms counted by fit
CorpusTerms(documents) ==
    UNION {Range(tokenize(documents[d])) : d \in DOMAIN documents}

\* doc_freq of fit: in how many documents each term appears
doc_freq(documents) ==
    [t \in CorpusTerms(documents)
        |-> Cardinality({d \in DOMAIN documents : t \in Range(tokenize(documents[d]))})]

\* the document that inserts a term into doc_freq
first_doc(documents, t) ==
    CHOOSE d \in DOMAIN documents :
        /\ t \in Range(tokenize(documents[d]))
        /\ \A e \in DOMAIN documents :
              t \in Range(tokenize(documents[e])) => d <= e

\* the orders in which doc_freq can hold its terms: by inserting document,
\* and in the iteration order of a set of strings within one document
InsertionOrders(documents) ==
    LET terms == CorpusTerms(documents)
    IN  {s \in [1..Cardinality(terms) -> terms] :
            /\ \A i, j \in DOMAIN s : i # j => s[i] # s[j]
            /\ \A i, j \in DOMAIN s :
                  i < j => first_doc(documents, s[i]) <= first_doc(documents, s[j])}

\* a stable sort by descending count
StableByCount(order, df) ==
    CHOOSE s \in [DOMAIN order -> Range(order)] :
        /\ \A i, j \in DOMAIN s : i # j => s[i] # s[j]
        /\ \A i, j \in DOMAIN s :
              i < j => \/ df[s[i]] > df[s[j]]
                       \/ /\ df[s[i]] = df[s[j]]
                          /\ \E a, b \in DOMAIN order :
                                a < b /\ order[a] = s[i] /\ order[b] = s[j]

\* Counter.most_common that ignores n
most_common_unbounded(order, df, n) == StableByCount(order, df)

\* Counter.most_common(n): the n largest counts, ties in insertion order
most_common(order, df, n) == Take(StableByCount(order, df), n)

\* position of a term in top_terms, counted from 0 as enumerate does
IndexOf(top_terms, t) == (CHOOSE i \in DOMAIN top_terms : top_terms[i] = t) - 1

\* a dict as a function over its keys; the empty dict is <<>>
Dict(f) == IF DOMAIN f = {} THEN <<>> ELSE f

\* the loop of fit over top_terms: existing entries of vocab and idf stay,
\* those of the retained terms are written
fit_top_terms(enc, documents, df, top_terms) ==
    [max_vocab_size |-> enc.max_vocab_size,
     vocab |-> Dict([t \in DOMAIN enc.vocab \cup Range(top_terms) |->
                        IF t \in Range(top_terms)
                        THEN IndexOf(top_terms, t)
                        ELSE enc.vocab[t]]),
     idf |-> Dict([t \in DOMAIN enc.idf \cup Range(top_terms) |->
                        IF t \in Range(top_terms)
                        THEN [doc_count |-> Len(documents), df |-> df[t]]
                        ELSE enc.idf[t]]),
     doc_count |-> Len(documents),
     fitted |-> TRUE]

\* TFIDFEncoder.fit: the encoders a call can leave, one for each order in
\* which doc_freq can hold its terms
fit(enc, documents) ==
    UNION {{fit_top_terms(enc, documents, df, top_terms) :
               top_terms \in {most_common(order, df, enc.max_vocab_size) :
                                 order \in InsertionOrders(documents)}} :
           df \in {doc_freq(documents)}}

\* term_freq of encode
term_freq(terms, t) == Cardinality({i \in DOMAIN terms : terms[i] = t})

\* max(term_freq.values())
max_tf(terms) ==
    CHOOSE m \in {term_freq(terms, t) : t \in Range(terms)} :
        \A t \in Range(terms) : term_freq(terms, t) <= m

\* the sparse vector encode builds from the terms found in vocab; a later
\* term writing the same index replaces the earlier one
sparse_vec(enc, terms, present) ==
    LET seen == Dedup(terms)
        writer(idx) ==
            seen[CHOOSE i \in DOMAIN seen :
                    /\ seen[i] \in present
                    /\ enc.vocab[seen[i]] = idx
                    /\ \A j \in DOMAIN seen :
                          (seen[j] \in present /\ enc.vocab[seen[j]] = idx) => j <= i]
    IN  Dict([idx \in {enc.vocab[t] : t \in present} |->
                        [tf |-> term_freq(terms, writer(idx)),
                        max_tf |-> max_tf(terms),
                        idf |-> enc.idf[writer(idx)]]])

\* the outcome of an encode call that raised
Raised(enc, kind) ==
    [error |-> kind, returned |-> FALSE, vector |-> <<>>, encoder |-> enc]

\* the outcome of an encode call that returned
Returned(enc, vec) ==
    [error |-> "none", returned |-> TRUE, vector |-> vec, encoder |-> enc]

\* encode that adds the terms it does not know to vocab
encode_learning(enc, text) ==
    IF ~enc.fitted THEN Raised(enc, "RuntimeError")
    ELSE LET terms == tokenize(text)
             unknown == Range(terms) \ DOMAIN enc.vocab
             next == Cardinality(DOMAIN enc.vocab)
             learnt == [enc EXCEPT
                           !.vocab = Dict([t \in DOMAIN enc.vocab \cup unknown |->
                        IF t \in unknown THEN next
                        ELSE enc.vocab[t]]),
                           !.idf = Dict([t \in DOMAIN enc.idf \cup unknown |->
                        IF t \in unknown
                        THEN [doc_count |-> 1, df |-> 1]
                        ELSE enc.idf[t]])]
         IN  IF terms = <<>> THEN Returned(enc, <<>>)
             ELSE Returned(learnt, sparse_vec(enc, terms, Range(terms) \cap DOMAIN enc.vocab))

\* encode that gives the terms it does not know index 0
encode_oov_slot(enc, text) ==
    IF ~enc.fitted THEN Raised(enc, "RuntimeError")
    ELSE LET terms == tokenize(text)
             slotted == [enc EXCEPT
                            !.vocab = Dict([t \in DOMAIN enc.vocab \cup Range(terms) |->
                        IF t \in DOMAIN enc.vocab
                        THEN enc.vocab[t] ELSE 0]),
                            !.idf = Dict([t \in DOMAIN enc.idf \cup Range(terms) |->
                        IF t \in DOMAIN enc.idf
                        THEN enc.idf[t]
                        ELSE [doc_count |-> 1, df |-> 1]])]
         IN  IF terms = <<>> THEN Returned(enc, <<>>)
             ELSE Returned(enc, sparse_vec(slotted, terms, Range(terms)))

\* TFIDFEncoder.encode
encode(enc, text) ==
    IF ~enc.fitted THEN Raised(enc, "RuntimeError")
    ELSE LET terms == tokenize(text)
         IN  IF terms = <<>> THEN Returned(enc, <<>>)
             ELSE Returned(enc, sparse_vec(enc, terms, Range(terms) \cap DOMAIN enc.vocab))

\* no encode call remembered
NoEncode == <<>>

\* an encode call: its text and its outcome
EncodeCall(text, out) ==
    [text |-> text, error |-> out.error, returned |-> out.returned,
     vector |-> out.vector]

\* a new encoder, as get_tfidf_encoder and the migration scripts build one
InitEncoder ==
    /\ \E n \in 1..MaxVocab : encoder = NewEncoder(n)
    /\ corpus = <<>>
    /\ fits = 0
    /\ last_encode = NoEncode
    /\ probe = NoEncode
    /\ TurnIdle
    /\ SearchIdle
    /\ ConcIdle
    /\ LookupIdle
    /\ SessionIdle

\* encoder.fit(documents)
Fit ==
    /\ fits < MaxFits
    /\ \E documents \in Corpora :
          /\ encoder' \in fit(encoder, documents)
          /\ corpus' = documents
    /\ fits' = fits + 1
    /\ last_encode' = NoEncode
    /\ probe' = NoEncode
    /\ UNCHANGED <<private_vars, shared_vars, search_vars, conc_vars,
                   lookup_vars, session_vars>>

\* encoder.encode(text); probe keeps the call made before, or an older one
Encode ==
    /\ \E text \in EncodeTexts :
       \E out \in {encode(encoder, text)} :
          /\ encoder' = out.encoder
          /\ last_encode' = EncodeCall(text, out)
    /\ probe' \in {probe, last_encode}
    /\ UNCHANGED <<corpus, fits>>
    /\ UNCHANGED <<private_vars, shared_vars, search_vars, conc_vars,
                   lookup_vars, session_vars>>

NextEncoder ==
    \/ Fit
    \/ Encode

SpecEncoder == InitEncoder /\ [][NextEncoder]_vars

\* ============================================ the lookup functions of db/
\* One call of get_search_weights, parse_destination or
\* get_city_variations: the argument is drawn at the start, the call returns
\* Some(result).  Weights are counted in hundredths.

\* longest destination string handed to parse_destination, in tokens
MaxToks == 5

\* one weight unit is 1 / WeightScale
WeightScale == 100

\* WEIGHT_PRESETS
WEIGHT_PRESETS ==
    ("balanced" :> [vector |-> 40, sparse |-> 30, fulltext |-> 30]) @@
    ("semantic" :> [vector |-> 70, sparse |-> 20, fulltext |-> 10]) @@
    ("keyword" :> [vector |-> 20, sparse |-> 60, fulltext |-> 20]) @@
    ("exact" :> [vector |-> 10, sparse |-> 20, fulltext |-> 70])

\* mode values handed to get_search_weights: the four of SearchMode and
\* strings outside it
LookupModes == {"balanced", "semantic", "keyword", "exact", "fuzzy", ""}

\* get_search_weights without the default of dict.get
get_search_weights_strict(mode) ==
    IF mode \in DOMAIN WEIGHT_PRESETS THEN WEIGHT_PRESETS[mode]
    ELSE [vector |-> 0, sparse |-> 0, fulltext |-> 0]

\* get_search_weights
get_search_weights(mode) ==
    IF mode \in DOMAIN WEIGHT_PRESETS THEN WEIGHT_PRESETS[mode]
    ELSE WEIGHT_PRESETS["balanced"]

\* words of a destination string
DestWords == {"Miami", "Key", "and", "AND"}

\* tokens of a destination string: words, a blank and the delimiters
DestTokens == DestWords \cup {" ", ",", "/", "&"}

\* a token string whose words are maximal: no two words are adjacent
Tokenised(s) ==
    \A i \in DOMAIN s :
        (i < Len(s) /\ s[i] \in DestWords) => s[i + 1] \notin DestWords

\* "Miami and Key West"
MiamiAndKeyWest == <<"Miami", " ", "and", " ", "Key", " ", "West">>

\* destination strings handed to parse_destination
ParseInputs ==
    {s \in UNION {[1..n -> DestTokens] : n \in 0..MaxToks} : Tokenised(s)}
        \cup {MiamiAndKeyWest}

\* every name of CITY_ALIASES
TableNames ==
    UNION {{CITY_ALIASES[i].main} \cup Range(CITY_ALIASES[i].aliases) :
              i \in DOMAIN CITY_ALIASES}

\* names handed to get_city_variations: the names of the table, names in
\* another case, names outside the table, names with surrounding blanks
CityInputs ==
    {<<n>> : n \in TableNames}
        \cup {<<>>, <<"MIAMI">>, <<"miami">>, <<"Key", " ", "West">>,
              <<"Paris">>, <<"Miami Gardens">>, <<"Paris", " ">>,
              <<" ", "Miami">>, <<"Hialeah", " ">>}

\* most travel days in the features handed to calculate_dynamic_top_k
MaxDays == 7

\* most POIs per day in the features handed to calculate_dynamic_top_k
MaxPoisPerDay == 5

DEFAULT_TOP_K == 20
MIN_TOP_K == 10
MAX_TOP_K == 50

\* the user_features argument of calculate_dynamic_top_k: None, {} or a
\* dict whose travel_days and pois_per_day are missing (None) or an int
TopKInputs ==
    {[supplied |-> sup, travel_days |-> NoneV, pois_per_day |-> NoneV] :
        sup \in {"None", "empty"}}
        \cup [supplied : {"dict"},
              travel_days : {NoneV} \cup {Some(n) : n \in (-1)..MaxDays},
              pois_per_day : {NoneV} \cup {Some(n) : n \in (-1)..MaxPoisPerDay}]

\* user_features.get(key) or default
get_or(value, default) ==
    IF value = NoneV \/ value = Some(0) THEN default ELSE value[1]

\* int(base_need * 1.5): the fraction is cut off towards zero
int_times_1_5(base_need) ==
    IF base_need >= 0 THEN (3 * base_need) \div 2
    ELSE 0 - ((3 * (0 - base_need)) \div 2)

\* max(a, b) and min(a, b)
max(a, b) == IF a >= b THEN a ELSE b
min(a, b) == IF a <= b THEN a ELSE b

\* calculate_dynamic_top_k without the clamp
calculate_dynamic_top_k_unclamped(features) ==
    IF features.supplied # "dict" THEN DEFAULT_TOP_K
    ELSE int_times_1_5(get_or(features.travel_days, 3)
                          * get_or(features.pois_per_day, 4))

\* calculate_dynamic_top_k
calculate_dynamic_top_k(features) ==
    IF features.supplied # "dict" THEN DEFAULT_TOP_K
    ELSE LET travel_days == get_or(features.travel_days, 3)
             pois_per_day == get_or(features.pois_per_day, 4)
             base_need == travel_days * pois_per_day
             calculated == int_times_1_5(base_need)
         IN  max(MIN_TOP_K, min(calculated, MAX_TOP_K))

\* a call is made with some argument
InitLookup ==
    /\ \/ lk_call = "get_search_weights" /\ lk_arg \in LookupModes
       \/ lk_call = "parse_destination" /\ lk_arg \in ParseInputs
       \/ lk_call = "get_city_variations" /\ lk_arg \in CityInputs
       \/ lk_call = "calculate_dynamic_top_k" /\ lk_arg \in TopKInputs
    /\ lk_result = NoneV
    /\ TurnIdle
    /\ SearchIdle
    /\ ConcIdle
    /\ EncoderIdle
    /\ SessionIdle

\* get_search_weights(mode) returns
GetSearchWeights ==
    /\ lk_call = "get_search_weights"
    /\ lk_result = NoneV
    /\ lk_result' = Some(get_search_weights(lk_arg))
    /\ UNCHANGED <<lk_call, lk_arg>>
    /\ UNCHANGED <<private_vars, shared_vars, search_vars, conc_vars,
                   enc_vars, session_vars>>

\* parse_destination(destination) returns
ParseDestination ==
    /\ lk_call = "parse_destination"
    /\ lk_result = NoneV
    /\ lk_result' = Some(parse_destination(lk_arg))
    /\ UNCHANGED <<lk_call, lk_arg>>
    /\ UNCHANGED <<private_vars, shared_vars, search_vars, conc_vars,
                   enc_vars, session_vars>>

\* get_city_variations(destination) returns
GetCityVariations ==
    /\ lk_call = "get_city_variations"
    /\ lk_result = NoneV
    /\ lk_result' = Some(get_city_variations(lk_arg))
    /\ UNCHANGED <<lk_call, lk_arg>>
    /\ UNCHANGED <<private_vars, shared_vars, search_vars, conc_vars,
                   enc_vars, session_vars>>

\* calculate_dynamic_top_k(user_features) returns
CalculateDynamicTopK ==
    /\ lk_call = "calculate_dynamic_top_k"
    /\ lk_result = NoneV
    /\ lk_result' = Some(calculate_dynamic_top_k(lk_arg))
    /\ UNCHANGED <<lk_call, lk_arg>>
    /\ UNCHANGED <<private_vars, shared_vars, search_vars, conc_vars,
                   enc_vars, session_vars>>

NextLookup ==
    \/ GetSearchWeights
    \/ ParseDestination
    \/ GetCityVariations
    \/ CalculateDynamicTopK

SpecLookup == InitLookup /\ [][NextLookup]_vars

\* ================================================= one chat session
\* The requests of one session, one after another.  chat() loads the saved
\* session (messages and optional_asked), hands the graph a state holding
\* only these two, and saves the result.  The graph runs route_start,
\* collector, validator, route_after_validation, then ask_user or
\* search_agent and generator.  The features the collector extracts are an
\* input: the set of fields the validator finds missing.

\* -------------------------------------------------------------------- bounds
\* requests followed in one session
MaxSessionTurns == 3

\* ---------------------------------------------------------- value domains
\* core_required_fields of validator_node and ask_user_node (two of the six)
CoreFields == {"destination", "travel_days"}

\* optional_recommended_fields of validator_node
OptionalFields == {"must_visit", "dietary_options"}

\* a session nothing was saved for: load_session_state finds no row
NewSession == [has_user_message |-> FALSE, optional_asked |-> FALSE]

\* route_start: no user message means a cold start
route_start(user_message) ==
    IF ~user_message THEN "ask_user" ELSE "collector"

\* variant: the optional fields are asked for whenever they are missing
route_after_validation_forgetful(complete, missing, already_asked) ==
    IF ~complete THEN "ask_user"
    ELSE IF Cardinality(missing) > 0 THEN "ask_user"
    ELSE "search_agent"

\* route_after_validation
route_after_validation(complete, missing, already_asked) ==
    IF ~complete THEN "ask_user"
    ELSE IF Cardinality(missing) > 0 /\ ~already_asked THEN "ask_user"
    ELSE "search_agent"

InitSession ==
    /\ node = "idle"
    /\ session = NewSession
    /\ session_turns = 0
    /\ has_user_message = FALSE
    /\ optional_asked = FALSE
    /\ feature_complete = FALSE
    /\ missing_features = {}
    /\ asked = "nothing"
    /\ TurnIdle
    /\ SearchIdle
    /\ ConcIdle
    /\ EncoderIdle
    /\ LookupIdle

\* chat() up to crag_graph.invoke and the entry routing: the state holds the
\* saved messages, the new message if there is one, and the saved flag
Request ==
    /\ node = "idle"
    /\ session_turns < MaxSessionTurns
    /\ \E message \in BOOLEAN :
          LET user_message == session.has_user_message \/ message
          IN  /\ has_user_message' = user_message
              /\ node' = route_start(user_message)
    /\ optional_asked' = session.optional_asked
    /\ feature_complete' = FALSE
    /\ missing_features' = {}
    /\ asked' = "nothing"
    /\ UNCHANGED <<session, session_turns>>
    /\ UNCHANGED <<private_vars, shared_vars, search_vars, conc_vars,
                   enc_vars, lookup_vars>>

\* collector_node and validator_node, then the conditional edge
Validator ==
    /\ node = "collector"
    /\ \E core_missing \in SUBSET CoreFields,
          optional_missing \in SUBSET OptionalFields :
          LET missing == core_missing \cup optional_missing
              complete == Cardinality(core_missing) = 0
          IN  /\ feature_complete' = complete
              /\ missing_features' = missing
              /\ node' = route_after_validation(complete, missing,
                                                optional_asked)
    /\ UNCHANGED <<session, session_turns, has_user_message, optional_asked,
                   asked>>
    /\ UNCHANGED <<private_vars, shared_vars, search_vars, conc_vars,
                   enc_vars, lookup_vars>>

\* ask_user_node: the greeting, or the question about the missing fields
AskUser ==
    /\ node = "ask_user"
    /\ IF ~has_user_message
       THEN /\ asked' = "greeting"
            /\ UNCHANGED optional_asked
       ELSE LET core_missing == missing_features \cap CoreFields
                optional_missing == missing_features \ CoreFields
            IN  IF Cardinality(core_missing) = 0
                      /\ Cardinality(optional_missing) > 0
                THEN /\ optional_asked' = TRUE
                     /\ asked' = "optional"
                ELSE /\ UNCHANGED optional_asked
                     /\ asked' = "core"
    /\ node' = "end"
    /\ UNCHANGED <<session, session_turns, has_user_message,
                   feature_complete, missing_features>>
    /\ UNCHANGED <<private_vars, shared_vars, search_vars, conc_vars,
                   enc_vars, lookup_vars>>

\* search_agent_node and generator_node return
SearchAndGenerate ==
    /\ node = "search_agent"
    /\ node' = "end"
    /\ UNCHANGED <<session, session_turns, has_user_message, optional_asked,
                   feature_complete, missing_features, asked>>
    /\ UNCHANGED <<private_vars, shared_vars, search_vars, conc_vars,
                   enc_vars, lookup_vars>>

\* search_agent_node or generator_node raises: chat() answers with an error
\* and saves nothing
SearchRaises ==
    /\ node = "search_agent"
    /\ node' = "idle"
    /\ session_turns' = session_turns + 1
    /\ UNCHANGED <<session, has_user_message, optional_asked,
                   feature_complete, missing_features, asked>>
    /\ UNCHANGED <<private_vars, shared_vars, search_vars, conc_vars,
                   enc_vars, lookup_vars>>

\* chat() after crag_graph.invoke: save_session_history
SaveSession ==
    /\ node = "end"
    /\ session' = [has_user_message |-> has_user_message,
                   optional_asked |-> optional_asked]
    /\ session_turns' = session_turns + 1
    /\ node' = "idle"
    /\ UNCHANGED <<has_user_message, optional_asked, feature_complete,
                   missing_features, asked>>
    /\ UNCHANGED <<private_vars, shared_vars, search_vars, conc_vars,
                   enc_vars, lookup_vars>>

NextSession ==
    \/ Request
    \/ Validator
    \/ AskUser
    \/ SearchAndGenerate
    \/ SearchRaises
    \/ SaveSession

SpecSession == InitSession /\ [][NextSession]_vars

\* ===================================================== properties of a turn

\* C1: the correction loop reaches a terminal state (accepted or fallback)
\* after at most max_retry + 1 retrieval attempts: once the decision cycle
\* that follows the (max_retry + 1)-th retrieval has run, a cycle has seen
\* quality good or the fallback has fired.
C1_TerminalWithinBudget ==
    (pc = "model" /\ attempts >= max_retry + 1) => terminal

C3_RefineExcludesFallback ==
    ~(cycle.refined /\ cycle.fellback)

\* C4: once fallback_triggered is true, no later step of the turn performs
\* the refine transition (retry_count, tried_queries) or the fallback
\* generation.
C4_NothingAfterFallback ==
    [][fallback_triggered
        => (/\ retry_count' = retry_count
            /\ tried_queries' = tried_queries
            /\ fallback_calls' = fallback_calls)]_vars

\* C5: when the rewriter returns a query text, the refiner hook performs the
\* refine transition exactly when result_quality is poor, retry_count is
\* below max_retry and error_type is set; otherwise it changes no state.
C5_RefineExactlyWhen ==
    [][(pc = "refiner" /\ rewriter_out' \notin {"fail", ""})
        => LET cond == /\ result_quality = "poor"
                       /\ retry_count < max_retry
                       /\ error_type # "none"
           IN  /\ cycle'.refined <=> cond
               /\ cond => /\ refined_query' = rewriter_out'
                          /\ retry_count' = retry_count + 1
                          /\ tried_queries' =
                                Append(tried_queries, rewriter_out')
               /\ ~cond => UNCHANGED state_vars]_vars

C5_Witness ==
    /\ pc = "fallback"
    /\ cycle.refined
    /\ retry_count = 1
    /\ tried_queries = <<refined_query>>

C7_GoodGradeFiresNothing ==
    (pc = "model" /\ cycle.grade = "good")
        => (~cycle.refined /\ ~cycle.fellback)

\* C7 (amended): a decision cycle that applies a good grade to a retrieval
\* that returned at least one candidate fires neither the refine nor the
\* fallback transition, whatever retry_count is.
C7_GoodNonEmptyFiresNothing ==
    (pc = "model" /\ cycle.grade = "good" /\ last_retrieval # <<>>)
        => (~cycle.refined /\ ~cycle.fellback)

C7_Witness ==
    /\ pc = "model"
    /\ cycle.grade = "good"
    /\ last_retrieval # <<>>
    /\ retry_count > 0
    /\ ~fallback_triggered

\* C8: accepted and fallback are terminal for retrieval: once a decision
\* cycle has seen quality good or the fallback has fired, search_pois is not
\* executed again in the turn.
C8_NoRetrievalAfterTerminal ==
    [][terminal => attempts' = attempts]_vars

\* C9: retry_count never decreases; it changes only in a refine transition,
\* which adds exactly 1; grading, fallback and a refine whose rewriter fails
\* leave it alone.
C9_RetryCountMonotone ==
    [][/\ retry_count' >= retry_count
       /\ (cycle'.refined /\ ~cycle.refined)
             => retry_count' = retry_count + 1
       /\ retry_count' # retry_count
             => (pc = "refiner" /\ cycle'.refined /\ ~cycle.refined)
       /\ (pc = "refiner" /\ rewriter_out' \in {"fail", ""})
             => retry_count' = retry_count]_vars

C9_Witness ==
    /\ retry_count = max_retry
    /\ Len(tried_queries) = max_retry

\* C10: tried_queries never holds the same string twice.
C10_NoDuplicateQueries ==
    \A i, j \in 1..Len(tried_queries) :
        i # j => tried_queries[i] # tried_queries[j]

\* C11: after a refine transition the next search_pois call of the turn is
\* issued with the refined query text of that transition and with the search
\* mode of the previous call.
C11_NextRetrievalUsesRefinedQuery ==
    [][(pc = "model" /\ cycle.refined /\ pc' = "tools")
        => (/\ tool_call'.query = refined_query
            /\ tool_call'.search_mode = tool_call.search_mode)]_vars

\* C12: a grader failure or a rewriter failure routes the turn to the
\* fallback: a turn whose last decision cycle applied an ungraded result, or
\* in which the rewriter failed, does not end without fallback_triggered.
C12_FailureRoutesToFallback ==
    (pc = "done" /\ (cycle.grade = "ungraded" \/ rewriter_out = "fail"))
        => fallback_triggered

\* C13: when the fallback fires, the candidates handed to the fallback
\* generator are non-empty whenever some retrieval of the turn, the latest or
\* an earlier one, returned candidates.
C13_FallbackGetsGatheredCandidates ==
    [][(fallback_calls' > fallback_calls /\ ever_found)
        => fallback_input'[1] # <<>>]_vars

\* C14: a failing fallback LLM call does not stop the fallback transition:
\* the hook still completes with fallback_triggered set and the apology as
\* final_response, and a turn whose fallback fired always has a response.
C14_FallbackAlwaysAnswers ==
    [][/\ (fallback_calls' > fallback_calls /\ fallback_llm' = "raise")
            => (/\ fallback_triggered'
                /\ final_response' = "apology"
                /\ pc' = "model")
       /\ fallback_triggered' => final_response' \in {"generated", "apology"}
      ]_vars

C14_Witness ==
    /\ pc = "model"
    /\ cycle.fellback
    /\ fallback_llm = "raise"
    /\ fallback_triggered
    /\ final_response = "apology"

\* ========================================= properties of side-by-side turns

\* C15: turns are isolated under concurrency: the grade and search_results
\* a turn's grading hook applies to its state come from that turn's own
\* search_pois call, and the stored results its fallback decision reads are
\* its own, never another turn's.
C15_TurnsIsolated ==
    [][\A t \in Turns :
          /\ (/\ turns[t].pc = "grading"
              /\ turns'[t].pc = "refiner"
              /\ pending_grading # NoneV)
                => pending_owner = t
          /\ (/\ turns[t].pc = "fallback"
              /\ turns'[t].pc = "model"
              /\ turns[t].last_search_results = NoneV
              /\ module_search_results # NoneV)
                => module_owner = t]_vars

\* ============================================ properties of hybrid_search

\* the city set the call's destination resolves to
ResolvedCities == get_all_valid_cities(parse_destination(destination))

\* a candidate's city belongs to the resolved set, case-insensitively
CityResolved(city) == city # "" /\ Lower(city) \in ResolvedCities

\* the ids of a list of documents or POIs
Ids(s) == [i \in DOMAIN s |-> s[i].id]

\* the backend returned candidates and none is in the resolved city set
FilterEmptiesPool ==
    /\ hs_pc = "returned"
    /\ destination # <<>>
    /\ pool # <<>>
    /\ \A i \in DOMAIN pool : ~CityResolved(pool[i].city)

\* C16 as stated: when the backend pool is non-empty and no candidate's city
\* is in the resolved destination city set, hybrid_search returns the
\* original unfiltered pool (every candidate of it) and never an empty list.
C16_ReturnsUnfilteredPool ==
    FilterEmptiesPool
        => /\ poi_results # <<>>
           /\ Range(Ids(poi_results)) = Range(Ids(pool))

\* C16 amended: in that case the destination filter is discarded, the
\* unfiltered pool goes on to reranking and truncation, the result is never
\* empty and holds only candidates of the pool; without reranking it is the
\* first top_k candidates of the pool in backend order.
C16_UnfilteredPoolGoesOn ==
    FilterEmptiesPool
        => /\ candidates = pool
           /\ poi_results # <<>>
           /\ Range(Ids(poi_results)) \subseteq Range(Ids(pool))
           /\ reranker = NotCalled
                 => Ids(poi_results) = Ids(Take(pool, top_k))

\* a pool of Orlando-only candidates longer than top_k, asked for "Miami"
C16_Witness ==
    /\ FilterEmptiesPool
    /\ parse_destination(destination) # <<>>
    /\ Len(pool) > top_k
    /\ reranker = NotCalled
    /\ Ids(poi_results) = Ids(Take(pool, top_k))

\* C17: when a destination is supplied and at least one backend candidate's
\* city is, case-insensitively, in the resolved city set, every candidate
\* hybrid_search returns has its city in that set.
C17_FilterSound ==
    (/\ hs_pc = "returned"
     /\ destination # <<>>
     /\ \E i \in DOMAIN pool : CityResolved(pool[i].city))
        => \A i \in DOMAIN poi_results : CityResolved(poi_results[i].city)

\* a pool mixing candidates inside and outside the resolved set, reranked
C17_Witness ==
    /\ hs_pc = "returned"
    /\ destination # <<>>
    /\ \E i \in DOMAIN pool : CityResolved(pool[i].city)
    /\ \E i \in DOMAIN pool : ~CityResolved(pool[i].city)
    /\ reranker.kind = "ok"
    /\ poi_results # <<>>
    /\ \A i \in DOMAIN poi_results : CityResolved(poi_results[i].city)

\* C18: for top_k >= 1 hybrid_search returns an empty list exactly when the
\* backend returned no candidate; neither the destination filter nor the
\* reranker (failing or answering nothing usable) empties a non-empty pool.
C18_EmptyIffBackendEmpty ==
    (hs_pc \in {"returned", "raised"} /\ top_k >= 1)
        => /\ hs_pc = "returned"
           /\ poi_results = <<>> <=> pool = <<>>

\* the filter matched nothing and the reranker answered nothing usable, yet
\* candidates are returned
C18_Witness ==
    /\ FilterEmptiesPool
    /\ parse_destination(destination) # <<>>
    /\ reranker.kind = "ok"
    /\ \A i \in DOMAIN reranker.items :
          reranker.items[i].document
              \notin {candidates[j].page_content : j \in DOMAIN candidates}
    /\ poi_results # <<>>

\* C19: the list hybrid_search returns has at most top_k elements, whatever
\* the pool, the destination and the reranker's answer.
C19_AtMostTopK ==
    hs_pc = "returned" => Len(poi_results) <= top_k

\* reranking was asked for and the reranker was unavailable, raised, or
\* answered with nothing that matches a candidate
RerankDegraded ==
    /\ hs_pc \in {"returned", "raised"}
    /\ use_rerank
    /\ \/ reranker.kind \in {"unavailable", "raise"}
       \/ /\ reranker.kind = "ok"
          /\ \A i \in DOMAIN reranker.items :
                reranker.items[i].document
                    \notin {candidates[j].page_content :
                               j \in DOMAIN candidates}

\* C20: when reranking is requested but degraded, hybrid_search raises no
\* error and returns the candidates in their pre-rerank order.
C20_DegradedKeepsOrder ==
    RerankDegraded
        => /\ hs_pc = "returned"
           /\ Ids(poi_results) = Ids(Take(candidates, top_k))

\* the reranker answered and at least one of its items names a candidate text
RerankSucceeded ==
    /\ hs_pc = "returned"
    /\ reranker.kind = "ok"
    /\ \E i \in DOMAIN reranker.items :
          reranker.items[i].document
              \in {candidates[j].page_content : j \in DOMAIN candidates}

\* C21: when reranking succeeds, the returned candidates are sorted by
\* rerank score: their score fields never increase along the list, whatever
\* list the reranker returned.
C21_SortedByRerankScore ==
    RerankSucceeded
        => \A i, j \in DOMAIN poi_results :
              i < j => poi_results[i].score >= poi_results[j].score

\* C22: the backend is asked for exactly top_k * f * r candidates, f being
\* 3 with a destination and 1 without, r being 2 with reranking and 1
\* without, and one hybrid_search call issues exactly one backend call.
C22_CandidatePoolSize ==
    hs_pc = "returned"
        => /\ candidate_k = top_k * (IF destination # <<>> THEN 3 ELSE 1)
                                  * (IF use_rerank THEN 2 ELSE 1)
           /\ backend_calls = 1

\* a call with a destination and reranking asked six times top_k
C22_Witness ==
    /\ hs_pc = "returned"
    /\ destination # <<>>
    /\ use_rerank
    /\ candidate_k = top_k * 6
    /\ backend_calls = 1

\* ================================================ properties of the encoder

\* the smaller of two numbers
Min(a, b) == IF a <= b THEN a ELSE b

\* the index values vocab holds
VocabIndices == {encoder.vocab[t] : t \in DOMAIN encoder.vocab}

\* C23: fit on a fresh encoder retains min(max_vocab_size, number of
\* distinct tokens) terms; no retained term has a lower document frequency
\* than a term left out, and the indices 0, 1, ... follow descending
\* document frequency.
C23_VocabularyCap ==
    fits = 1
        => LET df == doc_freq(corpus)
               terms == CorpusTerms(corpus)
               kept == DOMAIN encoder.vocab
           IN  /\ kept \subseteq terms
               /\ Cardinality(kept)
                     = Min(encoder.max_vocab_size, Cardinality(terms))
               /\ \A t \in kept : \A u \in terms \ kept : df[t] >= df[u]
               /\ VocabIndices = 0..(Cardinality(kept) - 1)
               /\ \A t, u \in kept :
                     encoder.vocab[t] < encoder.vocab[u] => df[t] >= df[u]

\* one fit of a fresh encoder where the cap cut off a less frequent term
C23_Witness ==
    /\ fits = 1
    /\ Cardinality(CorpusTerms(corpus)) > encoder.max_vocab_size
    /\ Cardinality(DOMAIN encoder.vocab) = encoder.max_vocab_size
    /\ \E t \in DOMAIN encoder.vocab :
       \E u \in CorpusTerms(corpus) \ DOMAIN encoder.vocab :
          doc_freq(corpus)[t] > doc_freq(corpus)[u]

\* C24: after one or more fit calls on the same encoder the vocabulary is
\* the one of the latest corpus: at most max_vocab_size terms, only terms of
\* that corpus, index values exactly 0 .. size - 1, every IDF positive
\* (ln(N / df) + 1 > 0, which 1 <= df <= N gives).
C24_VocabularyRebuilt ==
    fits >= 1
        => /\ Cardinality(DOMAIN encoder.vocab) <= encoder.max_vocab_size
           /\ DOMAIN encoder.vocab \subseteq CorpusTerms(corpus)
           /\ VocabIndices = 0..(Cardinality(DOMAIN encoder.vocab) - 1)
           /\ \A t \in DOMAIN encoder.idf :
                 /\ encoder.idf[t].df >= 1
                 /\ encoder.idf[t].df <= encoder.idf[t].doc_count

\* C25: encode on an encoder that was never fitted fails with the error
\* kind NotFittedError and returns no vector; once fit has completed no
\* encode call raises.
C25_NotFittedError ==
    last_encode # NoEncode
        => /\ fits = 0 => /\ last_encode.error = "NotFittedError"
                          /\ ~last_encode.returned
           /\ fits >= 1 => /\ last_encode.error = "none"
                           /\ last_encode.returned

\* C26: on a fitted encoder two encode calls with the same text return the
\* same vector, whatever encode calls were made between them, and an encode
\* call leaves vocab and idf as they were.
C26_SameTextSameVector ==
    (/\ fits >= 1
     /\ probe # NoEncode
     /\ last_encode # NoEncode
     /\ probe.text = last_encode.text)
        => probe.vector = last_encode.vector

\* two calls with the same text, whose tokens the vocabulary knows in part
C26_Witness ==
    /\ fits >= 1
    /\ probe # NoEncode
    /\ last_encode # NoEncode
    /\ probe.text = last_encode.text
    /\ last_encode.vector # <<>>
    /\ Range(tokenize(last_encode.text)) \ DOMAIN encoder.vocab # {}

\* C27: the keys of encode(text) are exactly the vocabulary indices of the
\* tokens of text that are in the vocabulary; tokens outside it raise
\* nothing, and a text without a token in the vocabulary gives the empty
\* vector.
C27_KeysAreKnownTokens ==
    (fits >= 1 /\ last_encode # NoEncode)
        => LET known == Range(tokenize(last_encode.text)) \cap DOMAIN encoder.vocab
           IN  /\ last_encode.returned
               /\ DOMAIN last_encode.vector = {encoder.vocab[t] : t \in known}
               /\ known = {} => last_encode.vector = <<>>

\* a text with one token in the vocabulary and one outside it
C27_Witness ==
    /\ fits >= 1
    /\ last_encode # NoEncode
    /\ last_encode.returned
    /\ Range(tokenize(last_encode.text)) \cap DOMAIN encoder.vocab # {}
    /\ Range(tokenize(last_encode.text)) \ DOMAIN encoder.vocab # {}

\* ===================================== properties of the lookup functions

\* the value a lookup call returned
Result == lk_result[1]

\* C28: for every mode value get_search_weights returns a weight triple
\* summing to 1.0: the preset of balanced, semantic, keyword or exact, and
\* the balanced preset for any other mode.
C28_WeightsSumToOne ==
    (lk_call = "get_search_weights" /\ lk_result # NoneV)
        => /\ DOMAIN Result = {"vector", "sparse", "fulltext"}
           /\ Result.vector + Result.sparse + Result.fulltext = WeightScale
           /\ lk_arg \in {"balanced", "semantic", "keyword", "exact"}
                 => Result = WEIGHT_PRESETS[lk_arg]
           /\ lk_arg \notin {"balanced", "semantic", "keyword", "exact"}
                 => Result = [vector |-> 40, sparse |-> 30, fulltext |-> 30]

\* a call with a mode outside the four returned the balanced weights
C28_Witness ==
    /\ lk_call = "get_search_weights"
    /\ lk_arg = "fuzzy"
    /\ lk_result = Some(WEIGHT_PRESETS["balanced"])

\* the pieces of a list of segments, one after the other
RECURSIVE Flatten(_)
Flatten(segs) ==
    IF segs = <<>> THEN <<>> ELSE Head(segs) \o Flatten(Tail(segs))

\* the words of a token string other than the word and
PlaceWords(toks) ==
    SelectSeq(toks, LAMBDA w : w \notin {" ", ",", "/", "&"} /\ Lower(w) # "and")

\* C29: parse_destination splits on the word and between blanks (in any
\* case), on comma, / and &, trims the segments, drops the empty ones and
\* keeps the order: "Miami and Key West" gives Miami, Key West; the empty
\* string gives nothing; no segment is empty, starts or ends with a blank,
\* or still holds a delimiter.
C29_SplitsTrimsKeepsOrder ==
    (lk_call = "parse_destination" /\ lk_result # NoneV)
        => /\ lk_arg = <<>> => Result = <<>>
           /\ lk_arg = MiamiAndKeyWest
                 => Result = << <<"Miami">>, <<"Key", " ", "West">> >>
           /\ \A k \in DOMAIN Result :
                 LET seg == Result[k]
                 IN  /\ seg # <<>>
                     /\ seg[1] # " "
                     /\ seg[Len(seg)] # " "
                     /\ \A i \in DOMAIN seg : seg[i] \notin {",", "/", "&"}
                     /\ \A i \in DOMAIN seg :
                           (1 < i /\ i < Len(seg) /\ Lower(seg[i]) = "and")
                               => ~(seg[i - 1] = " " /\ seg[i + 1] = " ")
           /\ PlaceWords(Flatten(Result)) = PlaceWords(lk_arg)
           /\ Len(Result)
                 <= 1 + Cardinality({i \in DOMAIN lk_arg :
                                        \/ lk_arg[i] \in {",", "/", "&"}
                                        \/ Lower(lk_arg[i]) = "and"})

\* a string with blanks around a delimiter was split in two trimmed segments
C29_Witness ==
    /\ lk_call = "parse_destination"
    /\ lk_arg = <<"Miami", " ", "AND", " ", "Key">>
    /\ lk_result = Some(<< <<"Miami">>, <<"Key">> >>)

\* the metro areas a name belongs to, compared without regard to case
MetrosOf(name) ==
    {i \in DOMAIN CITY_ALIASES :
        \E a \in {CITY_ALIASES[i].main} \cup Range(CITY_ALIASES[i].aliases) :
            Lower(name) = Lower(a)}

\* C30 as stated: a name that matches a primary city or an alias without
\* regard to case gets the alias list of its metro area, any other name
\* comes back as [name].
C30_ExpandsOrPassesThrough ==
    (lk_call = "get_city_variations" /\ lk_result # NoneV)
        => /\ \A i \in MetrosOf(Join(lk_arg)) : Result = CITY_ALIASES[i].aliases
           /\ MetrosOf(Join(lk_arg)) = {} => Result = <<Join(lk_arg)>>

\* C30 amended: the name is compared without regard to case and to
\* surrounding blanks; a name that matches gets the alias list of its metro
\* area, any other name comes back as [name], blanks included.
C30_ExpandsTrimmedOrPassesThrough ==
    (lk_call = "get_city_variations" /\ lk_result # NoneV)
        => /\ \A i \in MetrosOf(Join(strip(lk_arg))) :
                 Result = CITY_ALIASES[i].aliases
           /\ MetrosOf(Join(strip(lk_arg))) = {} => Result = <<Join(lk_arg)>>

\* an alias followed by a blank was expanded to the list of its metro area
C30_Witness ==
    /\ lk_call = "get_city_variations"
    /\ lk_arg = <<"Hialeah", " ">>
    /\ lk_result # NoneV
    /\ Len(lk_result[1]) = 10
    /\ lk_result[1][2] = "Miami Beach"

\* C31: calculate_dynamic_top_k returns a value in 10 .. 50 for every
\* input: 20 without features, otherwise travel_days * pois_per_day * 1.5
\* cut to an integer and clamped, a missing or zero travel_days counting as
\* 3 and a missing or zero pois_per_day as 4.
C31_TopKClamped ==
    (lk_call = "calculate_dynamic_top_k" /\ lk_result # NoneV)
        => /\ Result \in 10..50
           /\ lk_arg.supplied # "dict" => Result = 20
           /\ lk_arg.supplied = "dict"
                 => LET d == IF lk_arg.travel_days \in {NoneV, Some(0)}
                             THEN 3 ELSE lk_arg.travel_days[1]
                        p == IF lk_arg.pois_per_day \in {NoneV, Some(0)}
                             THEN 4 ELSE lk_arg.pois_per_day[1]
                    IN  /\ 3 * d * p < 20 => Result = 10
                        /\ 3 * d * p >= 100 => Result = 50
                        /\ (20 <= 3 * d * p /\ 3 * d * p < 100)
                              => /\ 2 * Result <= 3 * d * p
                                 /\ 3 * d * p < 2 * Result + 2

\* seven days of five POIs ask for 52 and get the upper bound
C31_Witness ==
    /\ lk_call = "calculate_dynamic_top_k"
    /\ lk_arg = [supplied |-> "dict", travel_days |-> Some(7),
                 pois_per_day |-> Some(5)]
    /\ lk_result = Some(50)

\* a turn at the start of its search phase: inside the agent, no model call
\* and no retrieval made yet
AtSearchStart(t) == turns[t].pc = "grading" /\ turns[t].attempts = 0

\* C32: when turns run one after another, a turn starts its search phase
\* with no stored last-search results and with no pending grading left by
\* an earlier turn.
C32_NoCrossTurnMemory ==
    \A t \in Turns :
        AtSearchStart(t)
            => /\ get_last_search_results_raw(turns[t].last_search_results,
                                              module_search_results) = NoneV
               /\ pending_grading = NoneV

\* the part of C32 about the stored results
C32_StoredResultsCleared ==
    \A t \in Turns :
        AtSearchStart(t)
            => get_last_search_results_raw(turns[t].last_search_results,
                                           module_search_results) = NoneV

\* C32 for turns that follow turns whose agent returned
C32_AfterReturnedTurns ==
    \A t \in Turns :
        (AtSearchStart(t) /\ \A o \in Turns : turns[o].pc # "aborted")
            => pending_grading = NoneV

\* a turn starts after an earlier turn's agent returned from a retrieval
C32_Witness ==
    \E t \in Turns, o \in Turns :
        /\ AtSearchStart(t)
        /\ turns[o].pc = "done"
        /\ turns[o].attempts > 0

\* C33: a pending grading result is applied exactly once.  The before_model
\* that follows a graded search_pois call merges the stored update into the
\* state and clears it; a before_model that finds nothing stored changes
\* nothing; and between that before_model and the next search_pois call
\* nothing is stored, so no later before_model can apply the update again.
C33_PendingAppliedOnce ==
    /\ [](pc \in {"refiner", "fallback", "model", "tools", "done"}
             => pending_grading = NoneV)
    /\ []((pc = "grading" /\ attempts > 0) => pending_grading # NoneV)
    /\ [][(pc = "grading" /\ pc' = "refiner")
             => /\ pending_grading' = NoneV
                /\ pending_grading = NoneV => UNCHANGED state_vars
                /\ pending_grading # NoneV
                      => LET u == pending_grading[1]
                         IN  /\ search_results' = u.search_results
                             /\ u.graded
                                   => /\ result_quality' = u.result_quality
                                      /\ error_type' = u.error_type
                                      /\ last_rag_query' = u.last_rag_query]_vars

\* the update of the second search_pois call has been applied and cleared
C33_Witness ==
    /\ pc = "refiner"
    /\ attempts = 2
    /\ cycle.grade = "poor"
    /\ result_quality = "poor"
    /\ pending_grading = NoneV

\* the grader outcomes that are a failed grading: the grader raised,
\* returned None, or returned an object without binary_score
GradingFailures == {"raise", "null", "malformed"}

\* C34: when the grading of a search_pois call fails, the pending update
\* holds the structured results of that call and nothing else, and applying
\* it stores them in search_results and leaves result_quality, error_type
\* and last_rag_query as they were.
C34_FailedGradingKeepsGrade ==
    /\ [](grader_out.kind \in GradingFailures
             => /\ pending_grading # NoneV
                /\ ~pending_grading[1].graded
                /\ pending_grading[1].search_results = last_retrieval)
    /\ [][(pc = "grading" /\ grader_out.kind \in GradingFailures)
             => /\ search_results' = last_retrieval
                /\ UNCHANGED <<result_quality, error_type, last_rag_query>>
          ]_vars

\* a good grade of the first call survives the failed grading of the second
C34_Witness ==
    /\ pc = "refiner"
    /\ attempts = 2
    /\ cycle.grade = "ungraded"
    /\ result_quality = "good"
    /\ last_rag_query = "q1"
    /\ tool_call.query = "q2"
    /\ search_results = <<"p1", "p2">>

\* ask_user has just run with only optional fields missing
AskedOptionalOnly == node = "end" /\ asked = "optional"

\* the validator has routed a turn whose core features are complete
RoutedComplete == node \in {"ask_user", "search_agent"} /\ feature_complete

\* C35: once ask_user has run with only optional fields missing, every
\* later turn of the session whose core features are complete goes to
\* search_agent, never to ask_user, and the flag stays set and saved.
C35_OptionalAskedOnce ==
    [](AskedOptionalOnly
          => [](/\ RoutedComplete => node = "search_agent"
                /\ optional_asked \/ node = "idle"
                /\ node = "idle" => session.optional_asked))

\* a later turn with optional fields still missing goes to search_agent
C35_Witness ==
    /\ node = "search_agent"
    /\ feature_complete
    /\ missing_features = {"must_visit"}
    /\ session.optional_asked
    /\ session_turns = 2

\* C36: when the agent returns after at least one retrieval, the grade last
\* applied to the state is good or the fallback has been triggered.
C36_NoSilentPoorResults ==
    (pc = "done" /\ attempts > 0)
        => (result_quality = "good" \/ fallback_triggered)

\* tried is an initial part of longer
IsPrefix(tried, longer) ==
    /\ Len(tried) <= Len(longer)
    /\ \A i \in 1..Len(tried) : longer[i] = tried[i]

\* C37: in every state of a turn, retry_count is between 0 and max_retry
\* and tried_queries has exactly retry_count entries; tried_queries only
\* grows at its end.
C37_RetryBoundAndLength ==
    /\ [](/\ 0 <= retry_count
          /\ retry_count <= max_retry
          /\ Len(tried_queries) = retry_count)
    /\ [][IsPrefix(tried_queries, tried_queries')]_vars

\* both retries used: two queries tried, in the order they were produced
C37_Witness ==
    /\ pc = "done"
    /\ retry_count = max_retry
    /\ tried_queries = <<"q2", "q1">>

\* the grader said relevant: binary_score is "yes" in any letter case
SaysRelevant(g) == g.binary_score \in {"yes", "Yes"}

\* C38: a grade written by the grading middleware is good exactly when
\* the grader says relevant and must-visit covered; its error_type is null
\* exactly when it is good; a poor grade carries missing_must_visit when
\* must-visit places are requested and not covered and irrelevant
\* otherwise.  So in the state a poor result_quality always comes with an
\* error_type, and a good or absent one with none.
C38_GradeWellFormed ==
    /\ (pc = "grading" /\ grader_out.kind = "ok")
          => /\ pending_grading # NoneV
             /\ LET u == pending_grading[1]
                    covered == grader_out.must_visit_covered
                IN  /\ u.graded
                    /\ u.result_quality \in {"good", "poor"}
                    /\ u.result_quality = "good"
                          <=> (SaysRelevant(grader_out) /\ covered)
                    /\ u.error_type = "none" <=> u.result_quality = "good"
                    /\ u.result_quality = "poor"
                          => u.error_type =
                                IF ~covered /\ current_must_visit
                                THEN "missing_must_visit" ELSE "irrelevant"
    /\ result_quality = "poor"
          => error_type \in {"missing_must_visit", "irrelevant"}
    /\ result_quality # "poor" => error_type = "none"

\* a relevant result graded poor for a must-visit place that is not covered
C38_Witness ==
    /\ pc = "grading"
    /\ grader_out = [kind |-> "ok", binary_score |-> "Yes",
                     must_visit_covered |-> FALSE]
    /\ current_must_visit
    /\ pending_grading[1].error_type = "missing_must_visit"

\* C39: every POI hybrid_search returns is a candidate of the filtered
\* pool, and no candidate is returned twice.
C39_ReturnsDistinctCandidates ==
    hs_pc = "returned"
        => LET ids == Ids(poi_results)
           IN  /\ \A i \in DOMAIN ids :
                     \E j \in DOMAIN candidates : candidates[j].id = ids[i]
               /\ \A i, j \in DOMAIN ids : i # j => ids[i] # ids[j]
====
